---- MODULE Spec2Model ----
(***************************************************************************)
(* Authorization core of the REGOD learning-platform backend:              *)
(*   - the teacher-code workflow   (app/routes/admin.py, routes/auth.py,   *)
(*                                  routes/teacher_codes.py)               *)
(*   - the token verifiers and the identity resolver (app/utils/auth.py,   *)
(*                                  app/clerk_jwt.py)                      *)
(*   - the RBAC predicates and the authorization gates (app/models.py,     *)
(*                                  app/rbac.py, main.py)                  *)
(* The relational store is modelled table by table; a handler is one       *)
(* action (assign_teacher_code is two: its SELECTs and its COMMIT, because *)
(* every request runs in its own SQLAlchemy session).                      *)
(***************************************************************************)
EXTENDS Integers, Sequences, FiniteSets, Bags, TLC

VARIABLES
    users,            \* table users: id -> row
    rbac,             \* tables permissions, roles and role_permissions, row by row
    role_permissions, \* the same tables as the ORM reads them: role name -> permission names
    codes,            \* table teacher_codes: id -> row
    code_uses,        \* table teacher_code_uses: set of [code_id, student_id]
    assignments,      \* table teacher_assignments: sequence of rows
    now,              \* wall clock
    inflight,         \* assign_teacher_code requests between their SELECTs and their COMMIT
    successes,        \* history: per code, the successful redemptions that wrote use_count
    registering,      \* register_user requests between their SELECTs and their COMMIT
    jwks_cache,       \* ClerkJWKS: the cached key set and its expiry
    refresh_tokens,   \* table refresh_tokens
    progress,         \* table user_module_progress
    manager,          \* ConnectionManager: active_connections and websocket_to_user
    resp              \* the response to the last completed request

\* The state of the services that do not read the tables of users and codes
services == <<jwks_cache, refresh_tokens, progress, manager>>

\* The tables of users, roles, codes and links, and the requests in flight on them
store == <<users, rbac, role_permissions, codes, code_uses, assignments, now, inflight,
           successes, registering>>

vars == <<store, services, resp>>

----------------------------------------------------------------------------
(* Bounds of the model *)

MaxUsers == 3         \* rows of the users table
MaxTime == 1          \* clock ticks
MaxUsesBound == 1     \* largest max_uses a code is issued with
MaxUseCount == 2      \* cap on use_count (validate_teacher_code can repeat for ever)

(* Values *)

None == "None"                       \* Python None / SQL NULL
Uid(i) == ToString(i)                \* the i-th uuid4 the store hands out
UserIds == {Uid(i) : i \in 1..MaxUsers}   \* primary keys of users
ForeignUuid == "uuid-of-no-row"      \* a well-formed UUID that is the id of no row
CodeIds == {"CODE1"}                 \* teacher_codes.code of the rows (unique)
NoSuchCode == "NOSUCHCODE"           \* a code string that matches no row
GenericNames == {"User", "Development User", ""}
RoleNames == {"student", "teacher", "admin"}

RECURSIVE SeqToSet(_)
SeqToSet(s) == IF s = <<>> THEN {} ELSE {Head(s)} \cup SeqToSet(Tail(s))

Contains(s, x) == \E i \in 1..Len(s) : s[i] = x

----------------------------------------------------------------------------
(* RBAC static data: app/rbac.py *)

PERMISSIONS ==
    {"user:read", "user:write", "user:delete",
     "course:read", "course:write", "course:delete",
     "progress:read", "progress:write",
     "chat:read", "chat:write", "chat:delete",
     "note:read", "note:write", "note:delete",
     "admin:users:manage", "admin:courses:manage", "admin:system:manage",
     "teacher:codes:manage", "teacher:students:view"}

DEFAULT_ROLES ==
    [r \in RoleNames |->
        CASE r = "student" ->
                {"user:read", "user:write", "course:read",
                 "progress:read", "progress:write",
                 "chat:read", "chat:write",
                 "note:read", "note:write", "note:delete"}
          [] r = "teacher" ->
                {"user:read", "course:read", "course:write",
                 "progress:read", "chat:read", "chat:write", "note:read",
                 "teacher:codes:manage", "teacher:students:view"}
          [] OTHER -> PERMISSIONS]

AdminAll == "admin:all"

\* The rows of the three tables: bags of permission names, of role names, and of
\* <<role name, permission name>> links (role_permissions has no unique constraint)
Tables(permissions, roles, links) ==
    [permissions |-> permissions, roles |-> roles, links |-> links]

add_always(rows, names) == rows (+) SetToBag(names)

\* `x = query.filter(name == n).first(); if not x: db.add(...)` for every name
add_missing(rows, names) == rows (+) SetToBag({n \in names : ~BagIn(n, rows)})

\* The links DEFAULT_ROLES asks for whose permission row exists
default_links(permissions) ==
    {l \in (DOMAIN DEFAULT_ROLES) \X BagToSet(permissions) : l[2] \in DEFAULT_ROLES[l[1]]}

\* initialize_rbac as a function of the tables
InitializeRbac(t) ==
    Tables(add_missing(t.permissions, PERMISSIONS),
           add_missing(t.roles, DOMAIN DEFAULT_ROLES),
           add_missing(t.links, default_links(add_missing(t.permissions, PERMISSIONS))))

\* role.permissions of every role, as the relationship loads them
RolePermissions(t) ==
    [r \in BagToSet(t.roles) |-> {l[2] : l \in {x \in BagToSet(t.links) : x[1] = r}}]

\* The tables behind a role -> permissions map, one row each
TablesOf(rp) ==
    Tables(SetToBag(PERMISSIONS \cup UNION {rp[r] : r \in DOMAIN rp}),
           SetToBag(DOMAIN rp),
           SetToBag({l \in (DOMAIN rp) \X (PERMISSIONS \cup {AdminAll}) : l[2] \in rp[l[1]]}))

----------------------------------------------------------------------------
(* Rows *)

UserRow(email, name, clerk, verified, roles) ==
    [email |-> email, name |-> name, clerk_user_id |-> clerk,
     is_active |-> TRUE, is_verified |-> verified, roles |-> roles]

\* expires_at is {} for NULL and {t} for the timestamp t
CodeRow(teacher, maxUses, expires, active) ==
    [teacher_id |-> teacher, max_uses |-> maxUses, use_count |-> 0,
     expires_at |-> expires, is_active |-> active]

\* The answer to a request, with the time of the request and the teacher_codes row
\* the request found under its code ({} if none)
Resp(op, status, detail, user, code) ==
    [op |-> op, status |-> status, detail |-> detail, user |-> user, code |-> code,
     at |-> now, row |-> IF code \in DOMAIN codes THEN {codes[code]} ELSE {}]

NoResp == Resp("none", 0, "", None, None)

\* uuid.uuid4(): an id no row has
Fresh(us) ==
    IF \E i \in 1..MaxUsers : Uid(i) \notin DOMAIN us
    THEN Uid(CHOOSE i \in 1..MaxUsers :
                Uid(i) \notin DOMAIN us /\ \A j \in 1..(i - 1) : Uid(j) \in DOMAIN us)
    ELSE "uuid-beyond-the-bound"

UserByEmail(us, email) ==
    IF \E u \in DOMAIN us : us[u].email = email
    THEN CHOOSE u \in DOMAIN us : us[u].email = email
    ELSE None

UserByClerkId(us, clerk) ==
    IF \E u \in DOMAIN us : us[u].clerk_user_id = clerk
    THEN CHOOSE u \in DOMAIN us : us[u].clerk_user_id = clerk
    ELSE None

----------------------------------------------------------------------------
(* Bearer tokens *)

\* A claim the payload does not carry is None; email_verified is {} when absent, else {b}.
\* "sub" stands for `payload.get("sub") or payload.get("user_id")`.
Payload(sub, email, name, email_verified) ==
    [sub |-> sub, email |-> email, name |-> name, email_verified |-> email_verified]

NoPayload == Payload(None, None, None, {})

\* A claim the Clerk JWT template left unexpanded
Templated == "{{user.primary_email_address}}"

\* header.payload.signature. kid: the key id of the header (None for a token this
\* backend issued); key: the key that signed it ("clerk": the RS256 key the JWKS
\* publishes under kid k1, "local": JWT_SECRET with HS256, "other": neither).
Jwt(kid, key, exp, payload) ==
    [form |-> "jwt", parts |-> 3, sid |-> None, kid |-> kid, key |-> key, exp |-> exp,
     payload |-> payload]

\* sess_<sid> followed by parts - 1 further dot-separated parts
SessionToken(sid, parts) ==
    [form |-> "sess", parts |-> parts, sid |-> sid, kid |-> None, key |-> "none", exp |-> 0,
     payload |-> NoPayload]

\* Any other string without a dot
OpaqueToken ==
    [form |-> "opaque", parts |-> 1, sid |-> None, kid |-> None, key |-> "none", exp |-> 0,
     payload |-> NoPayload]

JwksKids == {"k1"}                   \* the key ids the Clerk JWKS document lists
JwksStates == {"up", "down"}         \* whether ClerkJWKS.get_jwks can produce the key set

Accept(payload) == [ok |-> TRUE, status |-> 200, code |-> "", payload |-> payload]
Reject(status, code) == [ok |-> FALSE, status |-> status, code |-> code, payload |-> NoPayload]

\* app/clerk_jwt.py. Every HTTPException raised inside the try block (MISSING_KEY_ID,
\* JWKS_FETCH_FAILED, INVALID_KEY_ID, INVALID_ALGORITHM) is caught by the trailing
\* `except Exception` and becomes 500 TOKEN_VERIFICATION_FAILED. A signature or expiry
\* failure under RS256 is swallowed by the loop (`continue`), HS256 and ES256 then raise
\* InvalidAlgorithmError, and the loop ends with no payload: INVALID_ALGORITHM.
verify_clerk_jwt(token, jwks, t) ==
    IF token.form # "jwt" THEN Reject(401, "INVALID_TOKEN")
    ELSE IF token.kid = None THEN Reject(500, "TOKEN_VERIFICATION_FAILED")
    ELSE IF jwks = "down" THEN Reject(500, "TOKEN_VERIFICATION_FAILED")
    ELSE IF token.kid \notin JwksKids THEN Reject(500, "TOKEN_VERIFICATION_FAILED")
    ELSE IF token.key # "clerk" \/ token.exp <= t THEN Reject(500, "TOKEN_VERIFICATION_FAILED")
    ELSE Accept(token.payload)

\* app/utils/auth.py: jwt.decode(token, JWT_SECRET, algorithms=["HS256"])
verify_token(token, t) ==
    IF token.form # "jwt" \/ token.key # "local" THEN Reject(401, "INVALID_TOKEN")
    ELSE IF token.exp <= t THEN Reject(401, "TOKEN_EXPIRED")
    ELSE Accept(token.payload)

\* app/clerk_jwt.py: the development fallback
verify_clerk_session(token) ==
    IF token.form # "sess" THEN Reject(401, "INVALID_SESSION_TOKEN")
    ELSE IF token.parts >= 2
      THEN Accept(Payload("user_" \o token.sid, "user_" \o token.sid \o "@example.com",
                          "Development User", {FALSE}))
    ELSE Accept(Payload("user_dev_session", "dev@example.com", "Development User", {FALSE}))

----------------------------------------------------------------------------
(* Identity resolver: get_current_user of app/utils/auth.py *)

Truthy(s) == s # None /\ s # ""      \* Python truth of an optional string
_is_templated(value) == value = Templated
_to_bool(value) == TRUE \in value

Claims(user_id, email, name, email_verified) ==
    [user_id |-> user_id, email |-> email, name |-> name, email_verified |-> email_verified]

\* Lines 143-147: the claims read from a payload verify_clerk_jwt accepted
clerk_claims(payload, raw_email) ==
    Claims(payload.sub,
           IF _is_templated(raw_email) THEN None ELSE raw_email,
           IF Truthy(payload.name) THEN payload.name ELSE "User",
           _to_bool(payload.email_verified))

\* Lines 157-160 and 170-173: the claims read from a payload verify_token or
\* verify_clerk_session accepted
local_claims(payload) ==
    Claims(payload.sub,
           IF payload.email = None THEN "" ELSE payload.email,
           IF payload.name = None THEN "User" ELSE payload.name,
           TRUE \in payload.email_verified)

Verified(strategy, claims) == [ok |-> TRUE, strategy |-> strategy, claims |-> claims]
Unverified == [ok |-> FALSE, strategy |-> "none", claims |-> Claims(None, None, None, FALSE)]

FirstAccepted_no_local(clerk, local, session) ==
    IF clerk.ok
      THEN Verified("verify_clerk_jwt",
                    clerk_claims(clerk.payload,
                                 IF Truthy(clerk.payload.email) THEN clerk.payload.email ELSE ""))
    ELSE IF session.ok THEN Verified("verify_clerk_session", local_claims(session.payload))
    ELSE Unverified

\* Lines 115-181: the strategies in the order they are tried; the claims come from the
\* first one that accepts. verify_clerk_jwt is tried only on a token with two dots.
FirstAccepted(clerk, local, session) ==
    IF clerk.ok
      THEN Verified("verify_clerk_jwt",
                    clerk_claims(clerk.payload,
                                 IF Truthy(clerk.payload.email) THEN clerk.payload.email ELSE ""))
    ELSE IF local.ok THEN Verified("verify_token", local_claims(local.payload))
    ELSE IF session.ok THEN Verified("verify_clerk_session", local_claims(session.payload))
    ELSE Unverified

verified_claims(token, jwks, t) ==
    FirstAccepted(IF token.parts = 3 THEN verify_clerk_jwt(token, jwks, t)
                  ELSE Reject(401, "Not a JWT token"),
                  verify_token(token, t),
                  verify_clerk_session(token))

\* uuid.UUID(user_id) parses
IsUuid(s) == s \in UserIds \cup {ForeignUuid}

\* Lines 191-201: by primary key when the subject parses as a UUID, else by
\* clerk_user_id; by email only if that found nothing and the email is truthy.
find_user(us, user_id, email) ==
    LET first == IF IsUuid(user_id)
                 THEN (IF user_id \in DOMAIN us THEN user_id ELSE None)
                 ELSE UserByClerkId(us, user_id)
    IN IF first = None /\ Truthy(email) THEN UserByEmail(us, email) ELSE first

\* The INSERT of lines 206-221 violates a constraint: email is NOT NULL and unique,
\* clerk_user_id is unique
InsertFails(us, c) ==
    \/ c.email = None
    \/ \E u \in DOMAIN us : us[u].email = c.email
    \/ \E u \in DOMAIN us : us[u].clerk_user_id = c.user_id

\* Lines 206-221: the new row, under the id uuid4() returned, with the student role if
\* the roles table has one
create_user(us, c, id) ==
    [u \in DOMAIN us \cup {id} |->
        IF u = id
        THEN UserRow(c.email, c.name, c.user_id, c.email_verified,
                     IF "student" \in DOMAIN role_permissions THEN <<"student">> ELSE <<>>)
        ELSE us[u]]

\* Lines 230-232
ReconcileEmail(stored, email) == IF Truthy(email) /\ stored # email THEN email ELSE stored

\* The claimed name taken whenever there is one
ReconcileName_overwrite(stored, name) == IF Truthy(name) THEN name ELSE stored

\* Lines 238-246
ReconcileName(stored, name) ==
    IF Truthy(name) /\ name \notin GenericNames /\ (stored \in GenericNames \/ ~Truthy(stored))
    THEN name ELSE stored

ReconcileVerified_overwrite(is_verified, email_verified) == email_verified

\* Lines 250-256
ReconcileVerified(is_verified, email_verified) ==
    IF email_verified /\ ~is_verified THEN email_verified ELSE is_verified

\* Lines 225-259
reconcile_user(us, uid, c) ==
    [us EXCEPT ![uid].email = ReconcileEmail(@, c.email),
               ![uid].name = ReconcileName(@, c.name),
               ![uid].is_verified = ReconcileVerified(@, c.email_verified)]

\* The UPDATE of line 259 violates the unique constraint on email
UpdateFails(us, uid, c) ==
    \E u \in DOMAIN us \ {uid} : us[u].email = ReconcileEmail(us[uid].email, c.email)

NoIdentity == [type |-> "none"]

\* Lines 269-284: the dict handed to the request. permissions is a list in the code;
\* only membership in it is ever tested.
Identity(us, uid) ==
    [type |-> "dict", id |-> uid, email |-> us[uid].email, name |-> us[uid].name,
     role |-> IF us[uid].roles # <<>> THEN Head(us[uid].roles) ELSE "student",
     verified |-> us[uid].is_verified, clerk_user_id |-> us[uid].clerk_user_id,
     roles |-> us[uid].roles,
     permissions |-> UNION {role_permissions[r] : r \in SeqToSet(us[uid].roles)}]

Resolved(status, code, identity, us, created) ==
    [status |-> status, code |-> code, identity |-> identity, users |-> us, created |-> created]

\* Lines 261-284: the inactive check and the answer
Answer(after, uid, created) ==
    IF ~after[uid].is_active THEN Resolved(401, "USER_INACTIVE", NoIdentity, after, created)
    ELSE Resolved(200, "", Identity(after, uid), after, created)

\* Lines 203-259: create the row when none was found, else reconcile the one found. A
\* constraint violation is an exception the outer handler answers with 500.
ResolveUser(us, c, found) ==
    IF found = None
      THEN (IF InsertFails(us, c) THEN Resolved(500, "INTERNAL_ERROR", NoIdentity, us, FALSE)
            ELSE Answer(create_user(us, c, Fresh(us)), Fresh(us), TRUE))
    ELSE IF UpdateFails(us, found, c) THEN Resolved(500, "INTERNAL_ERROR", NoIdentity, us, FALSE)
    ELSE Answer(reconcile_user(us, found, c), found, FALSE)

\* Lines 175-201
ResolveClaims(us, v) ==
    IF ~v.ok THEN Resolved(401, "TOKEN_VERIFICATION_FAILED", NoIdentity, us, FALSE)
    ELSE IF ~Truthy(v.claims.user_id) THEN Resolved(401, "INVALID_TOKEN", NoIdentity, us, FALSE)
    ELSE ResolveUser(us, v.claims, find_user(us, v.claims.user_id, v.claims.email))

\* get_current_user as a function of the token and the store: the response or the
\* identity, and the users table it leaves behind
GetCurrentUser(token, jwks, us, t) == ResolveClaims(us, verified_claims(token, jwks, t))

AuthResp(token, jwks, r) ==
    [op |-> "get_current_user", status |-> r.status, detail |-> r.code,
     identity |-> r.identity, created |-> r.created, token |-> token, jwks |-> jwks, at |-> now]

\* A request whose only work is the dependency (GET /api/auth/me and the like)
get_current_user(token, jwks) ==
    \E r \in {GetCurrentUser(token, jwks, users, now)} :
        /\ Cardinality(DOMAIN r.users) <= MaxUsers
        /\ users' = r.users
        /\ resp' = AuthResp(token, jwks, r)
        /\ UNCHANGED <<rbac, role_permissions, registering, services, codes, code_uses, assignments, now, inflight, successes>>

----------------------------------------------------------------------------
(* RBAC predicates: app/models.py on a User row, app/utils/auth.py on the dict *)

\* User.has_permission
has_permission(us, uid, permission_name) ==
    LET has_specific == \E r \in SeqToSet(us[uid].roles) : permission_name \in role_permissions[r]
        has_admin_all == \E r \in SeqToSet(us[uid].roles) : AdminAll \in role_permissions[r]
    IN has_specific \/ has_admin_all

\* User.has_role
has_role(us, uid, role_name) == \E i \in 1..Len(us[uid].roles) : us[uid].roles[i] = role_name

user_has_permission_exact(user_dict, permission_name) ==
    user_dict.type = "dict" /\ permission_name \in user_dict.permissions

user_has_permission(user_dict, permission_name) ==
    IF user_dict.type # "dict" THEN FALSE
    ELSE LET has_specific == permission_name \in user_dict.permissions
             has_admin_all == AdminAll \in user_dict.permissions
         IN has_specific \/ has_admin_all

user_has_role(user_dict, role_name) ==
    IF user_dict.type # "dict" THEN FALSE
    ELSE \E i \in 1..Len(user_dict.roles) : user_dict.roles[i] = role_name

\* Both predicates applied to one stored user: the row, and the dict get_current_user
\* builds from the row
evaluate_permission(uid, permission_name) ==
    /\ uid \in DOMAIN users
    /\ resp' = [op |-> "has_permission", user |-> uid, permission |-> permission_name,
                permissions |-> Identity(users, uid).permissions,
                on_row |-> has_permission(users, uid, permission_name),
                on_dict |-> user_has_permission(Identity(users, uid), permission_name)]
    /\ UNCHANGED <<users, rbac, role_permissions, registering, services, codes, code_uses, assignments, now, inflight, successes>>

----------------------------------------------------------------------------
(* Authorization gates of app/rbac.py *)

Gate(status, detail, invoked) == [status |-> status, detail |-> detail, invoked |-> invoked]

GateResp(op, g, identity, required, us) ==
    [op |-> op, status |-> g.status, detail |-> g.detail, invoked |-> g.invoked,
     identity |-> identity, required |-> required,
     roles |-> IF identity.type = "dict" THEN us[identity.id].roles ELSE <<>>]

\* The wrapper of require_permission. current_user is what get_current_user returned:
\* a dict, which is truthy and has no attribute has_permission, so the call raises
\* AttributeError and the request is answered 500. The last two branches are the
\* wrapper's on an object that has the method.
require_permission(current_user, permission_name) ==
    IF current_user.type = "none" THEN Gate(401, "Authentication required", FALSE)
    ELSE IF current_user.type = "dict" THEN Gate(500, "Internal Server Error", FALSE)
    ELSE IF ~has_permission(users, current_user.id, permission_name)
      THEN Gate(403, "Permission '" \o permission_name \o "' required", FALSE)
    ELSE Gate(200, "", TRUE)

\* `role_name if isinstance(role_name, list) else [role_name]`
Single(r) == [kind |-> "str", name |-> r, names |-> <<>>]
List(rs) == [kind |-> "list", name |-> "", names |-> rs]
roles_to_check(role_name) == IF role_name.kind = "list" THEN role_name.names ELSE <<role_name.name>>

\* str() of a list of strings, without the brackets
RECURSIVE Joined(_)
Joined(rs) ==
    IF rs = <<>> THEN ""
    ELSE IF Len(rs) = 1 THEN "'" \o rs[1] \o "'"
    ELSE "'" \o rs[1] \o "', " \o Joined(Tail(rs))

\* The wrapper of require_role; as above, has_role is looked up on a dict
require_role(current_user, role_name) ==
    IF current_user.type = "none" THEN Gate(401, "Authentication required", FALSE)
    ELSE IF current_user.type = "dict" THEN Gate(500, "Internal Server Error", FALSE)
    ELSE IF ~\E i \in 1..Len(roles_to_check(role_name)) :
                has_role(users, current_user.id, roles_to_check(role_name)[i])
      THEN Gate(403, "Role '[" \o Joined(roles_to_check(role_name)) \o "]' required", FALSE)
    ELSE Gate(200, "", TRUE)

\* The rows of teacher_assignments after the body of create_teacher_assignment
\* (app/routes/admin.py), and its answer
create_teacher_assignment_body(us, teacher_id, student_id) ==
    LET existing == {i \in 1..Len(assignments) :
                        /\ assignments[i].teacher_id = teacher_id
                        /\ assignments[i].student_id = student_id}
        i == CHOOSE j \in existing : TRUE
    IN
    IF teacher_id \notin DOMAIN us \/ ~has_role(us, teacher_id, "teacher")
      THEN [status |-> 400, detail |-> "Invalid teacher ID", rows |-> assignments]
    ELSE IF student_id \notin DOMAIN us
      THEN [status |-> 404, detail |-> "Student not found", rows |-> assignments]
    ELSE IF existing # {} /\ ~assignments[i].active
      THEN [status |-> 200, detail |-> "Teacher assignment reactivated",
            rows |-> [assignments EXCEPT ![i].active = TRUE]]
    ELSE IF existing # {}
      THEN [status |-> 400, detail |-> "Teacher assignment already exists", rows |-> assignments]
    ELSE [status |-> 200, detail |-> "Teacher assignment created successfully",
          rows |-> Append(assignments,
                          [teacher_id |-> teacher_id, student_id |-> student_id, active |-> TRUE])]

\* POST /api/admin/teacher-assignments, behind @require_permission("admin:users:manage")
create_teacher_assignment(token, jwks, teacher_id, student_id) ==
    \E r \in {GetCurrentUser(token, jwks, users, now)} :
    \E g \in {IF r.identity = NoIdentity THEN Gate(r.status, r.code, FALSE)
               ELSE require_permission(r.identity, "admin:users:manage")} :
        /\ Cardinality(DOMAIN r.users) <= MaxUsers
        /\ users' = r.users
        /\ IF g.invoked
             THEN \E b \in {create_teacher_assignment_body(r.users, teacher_id, student_id)} :
                    /\ resp' = GateResp("create_teacher_assignment", Gate(b.status, b.detail, TRUE),
                                        r.identity, "admin:users:manage", r.users)
                    /\ assignments' = b.rows
             ELSE /\ resp' = GateResp("create_teacher_assignment", g, r.identity,
                                      "admin:users:manage", r.users)
                  /\ UNCHANGED assignments
        /\ UNCHANGED <<rbac, role_permissions, registering, services, codes, code_uses, now, inflight, successes>>

\* _generate_teacher_code(): a code string no row has
FreshCode == "CODE2"

\* GET /api/admin/my-code, behind @require_role(["admin", "teacher"]); the body creates
\* the caller's code (max_uses = 0, no expiry) when the caller owns none
get_or_create_my_teacher_code_body(cs, teacher_id) ==
    IF (\E c \in DOMAIN cs : cs[c].teacher_id = teacher_id) \/ FreshCode \in DOMAIN cs THEN cs
    ELSE [c \in DOMAIN cs \cup {FreshCode} |->
             IF c = FreshCode THEN CodeRow(teacher_id, 0, {}, TRUE) ELSE cs[c]]

get_or_create_my_teacher_code(token, jwks) ==
    \E r \in {GetCurrentUser(token, jwks, users, now)} :
    \E g \in {IF r.identity = NoIdentity THEN Gate(r.status, r.code, FALSE)
               ELSE require_role(r.identity, List(<<"admin", "teacher">>))} :
        /\ Cardinality(DOMAIN r.users) <= MaxUsers
        /\ users' = r.users
        /\ resp' = GateResp("get_or_create_my_teacher_code", g, r.identity,
                            <<"admin", "teacher">>, r.users)
        /\ codes' = IF g.invoked THEN get_or_create_my_teacher_code_body(codes, r.identity.id)
                    ELSE codes
        /\ UNCHANGED <<rbac, role_permissions, registering, services, code_uses, assignments, now, inflight, successes>>

----------------------------------------------------------------------------
(* The monolith main.py: its own get_current_user, require_role and assign_teacher *)

\* email.split('@')[0]
LocalPart(email) ==
    CASE email = "a@x" -> "a" [] email = "b@x" -> "b" [] email = "n@x" -> "n"
      [] email = "t@x" -> "t" [] OTHER -> email

\* main.py lines 504-527. verify_clerk_jwt is tried on every token. The session
\* fallback awaits the dict verify_clerk_session returns, which raises TypeError, or
\* gets its HTTPException: either way the Clerk error is re-raised.
main_verified_payload(token, jwks, t) ==
    LET clerk == verify_clerk_jwt(token, jwks, t)
        local == verify_token(token, t)
    IN IF clerk.ok THEN clerk ELSE IF local.ok THEN local ELSE clerk

\* main.py lines 544-562
main_find_user(us, p) ==
    LET by_id == IF IsUuid(p.sub) /\ p.sub \in DOMAIN us THEN p.sub ELSE None
        by_clerk == IF by_id = None THEN UserByClerkId(us, p.sub) ELSE by_id
    IN IF by_clerk = None /\ Truthy(p.email) THEN UserByEmail(us, p.email) ELSE by_clerk

\* main.py lines 585-595
actual_user_id(us, user_id) == IF IsUuid(user_id) THEN user_id ELSE Fresh(us)

\* main.py lines 567-616: the row is created without any role
main_create_user(us, p, id) ==
    [u \in DOMAIN us \cup {id} |->
        IF u = id
        THEN UserRow(IF Truthy(p.email) THEN p.email ELSE "",
                     IF ~Truthy(p.email) THEN "User"
                     ELSE IF Truthy(p.name) THEN p.name ELSE LocalPart(p.email),
                     p.sub, TRUE \in p.email_verified, <<>>)
        ELSE us[u]]

\* main.py lines 633-640
MainIdentity(us, uid) ==
    [type |-> "dict", id |-> uid, email |-> us[uid].email, name |-> us[uid].name,
     role |-> IF us[uid].roles # <<>> THEN Head(us[uid].roles) ELSE "student",
     verified |-> us[uid].is_verified, clerk_user_id |-> us[uid].clerk_user_id]

\* main.py lines 619-640
MainAnswer(after, uid, created) ==
    IF ~after[uid].is_active THEN Resolved(401, "USER_INACTIVE", NoIdentity, after, created)
    ELSE Resolved(200, "", MainIdentity(after, uid), after, created)

\* main.py lines 529-616; the INSERT fails on the unique email
MainResolve(us, v, found) ==
    IF ~v.ok THEN Resolved(v.status, v.code, NoIdentity, us, FALSE)
    ELSE IF ~Truthy(v.payload.sub) THEN Resolved(401, "INVALID_TOKEN", NoIdentity, us, FALSE)
    ELSE IF found # None THEN MainAnswer(us, found, FALSE)
    ELSE IF \E u \in DOMAIN us : us[u].email = (IF Truthy(v.payload.email) THEN v.payload.email ELSE "")
      THEN Resolved(500, "AUTH_ERROR", NoIdentity, us, FALSE)
    ELSE MainAnswer(main_create_user(us, v.payload, actual_user_id(us, v.payload.sub)),
                    actual_user_id(us, v.payload.sub), TRUE)

MainResolvePayload(us, v) == MainResolve(us, v, main_find_user(us, v.payload))

main_get_current_user(token, jwks, us, t) ==
    MainResolvePayload(us, main_verified_payload(token, jwks, t))

\* main.py lines 653-674: the wrapper of require_role(*allowed_roles)
main_require_role(current_user, allowed_roles) ==
    IF current_user.type = "none" THEN Gate(401, "UNAUTHENTICATED", FALSE)
    ELSE IF ~Contains(allowed_roles, current_user.role) /\ ~Contains(allowed_roles, "admin")
      THEN Gate(403, "FORBIDDEN", FALSE)
    ELSE Gate(200, "", TRUE)

\* The body of assign_teacher: INSERT ... ON CONFLICT (teacher_id, student_id) DO UPDATE
\* SET active = true. The assigned_by column and the audit_logs row are not modelled.
assign_teacher_body(us, user_id, teacher_id) ==
    LET existing == {i \in 1..Len(assignments) :
                        /\ assignments[i].teacher_id = teacher_id
                        /\ assignments[i].student_id = user_id}
        student == user_id \in DOMAIN us /\ has_role(us, user_id, "student")
        teacher == teacher_id \in DOMAIN us /\ has_role(us, teacher_id, "teacher")
    IN
    IF ~student \/ ~teacher
      THEN [status |-> 400, detail |-> "INVALID_USERS", rows |-> assignments]
    ELSE [status |-> 200, detail |-> "Teacher assigned successfully",
          rows |-> IF existing # {}
                   THEN [i \in 1..Len(assignments) |->
                            IF i \in existing THEN [assignments[i] EXCEPT !.active = TRUE]
                            ELSE assignments[i]]
                   ELSE Append(assignments,
                               [teacher_id |-> teacher_id, student_id |-> user_id, active |-> TRUE])]

\* POST /api/admin/users/{user_id}/assign-teacher, behind @require_role("admin")
assign_teacher(token, jwks, user_id, teacher_id) ==
    \E r \in {main_get_current_user(token, jwks, users, now)} :
    \E g \in {main_require_role(r.identity, <<"admin">>)} :
        /\ Cardinality(DOMAIN r.users) <= MaxUsers
        /\ users' = r.users
        /\ IF r.identity # NoIdentity /\ g.invoked
             THEN \E b \in {assign_teacher_body(r.users, user_id, teacher_id)} :
                    /\ resp' = GateResp("assign_teacher", Gate(b.status, b.detail, TRUE),
                                        r.identity, <<"admin">>, r.users)
                    /\ assignments' = b.rows
             ELSE /\ resp' = GateResp("assign_teacher",
                                      IF r.identity = NoIdentity THEN Gate(r.status, r.code, FALSE)
                                      ELSE g,
                                      r.identity, <<"admin">>, r.users)
                  /\ UNCHANGED assignments
        /\ UNCHANGED <<rbac, role_permissions, registering, services, codes, code_uses, now, inflight, successes>>

----------------------------------------------------------------------------
(* Teacher-code workflow *)

\* `code_rec.expires_at and code_rec.expires_at < datetime.now(timezone.utc)`
Expired(c, t) == \E e \in c.expires_at : e < t

\* `code_rec.max_uses > 0 and code_rec.use_count >= code_rec.max_uses`
ExceededMaxUses(c) == c.max_uses > 0 /\ c.use_count >= c.max_uses

\* db.query(TeacherCode).filter(TeacherCode.code == teacher_code).first()
CodeByString(cs, code) == IF code \in DOMAIN cs THEN code ELSE None

\* The checks assign_teacher_code, validate_teacher_code and
\* validate_teacher_code_exists share, in the order of the code; "" when all pass.
CodeCheck(cs, code, t) ==
    IF CodeByString(cs, code) = None THEN "Invalid teacher code"
    ELSE IF Expired(cs[code], t) THEN "Teacher code has expired"
    ELSE IF ExceededMaxUses(cs[code]) THEN "Teacher code has exceeded maximum uses"
    ELSE IF ~cs[code].is_active THEN "Teacher code is not active"
    ELSE ""

\* What the Clerk API answers to get_user: no data (a non-200 answer, or an exception,
\* which both handlers swallow), or the user's record (first and last name).
ClerkAnswers == {"none", "data"}
ClerkFullName == "Clerk Name"

\* The teacher role appended to the roles the user holds
teacher_appended(roles) == IF Contains(roles, "teacher") THEN roles ELSE Append(roles, "teacher")

\* user.roles.clear(); user.roles.append(teacher_role)
teacher_only(roles) == <<"teacher">>

\* Every handler below starts by rejecting a body that lacks a required field (400); that
\* check reads no state and the requests of the model carry every field.

validate_teacher_code_exists(code) ==
    /\ resp' = (IF CodeCheck(codes, code, now) # ""
                THEN Resp("validate_code_exists", 400, CodeCheck(codes, code, now), None, code)
                ELSE Resp("validate_code_exists", 200, "Teacher code is valid", None, code))
    /\ UNCHANGED <<users, rbac, role_permissions, registering, services, codes, code_uses, assignments, now, inflight, successes>>

\* assign_teacher_code, lines 215-240: the response of the first failing check, or NoResp
assign_teacher_code_reject(uid, code) ==
    IF uid \notin DOMAIN users
      THEN Resp("assign_teacher_code", 404, "User not found", uid, code)
    ELSE IF CodeCheck(codes, code, now) # ""
      THEN Resp("assign_teacher_code", 400, CodeCheck(codes, code, now), uid, code)
    ELSE IF "teacher" \in DOMAIN role_permissions /\ Contains(users[uid].roles, "teacher")
      THEN Resp("assign_teacher_code", 400, "User already has teacher role", uid, code)
    ELSE IF "teacher" \notin DOMAIN role_permissions
      THEN Resp("assign_teacher_code", 500, "Teacher role not found in database", uid, code)
    ELSE NoResp

\* assign_teacher_code, lines 245-263: the rows written at db.commit() by a session that
\* read use_count = seen
assign_teacher_code_write(uid, code, seen, clerk) ==
    /\ users' = [users EXCEPT ![uid].roles = teacher_only(@),
                               ![uid].name = IF users[uid].clerk_user_id # None /\ clerk = "data"
                                             THEN ClerkFullName ELSE @]
    /\ codes' = [codes EXCEPT ![code].use_count = seen + 1]
    /\ successes' = [successes EXCEPT ![code] = @ + 1]
    /\ resp' = Resp("assign_teacher_code", 200, "Teacher code validated successfully", uid, code)

\* assign_teacher_code served alone: nothing runs between its SELECTs and its COMMIT
assign_teacher_code(uid, code, clerk) ==
    /\ IF assign_teacher_code_reject(uid, code) # NoResp
         THEN /\ resp' = assign_teacher_code_reject(uid, code)
              /\ UNCHANGED <<users, codes, successes>>
         ELSE assign_teacher_code_write(uid, code, codes[code].use_count, clerk)
    /\ UNCHANGED <<rbac, role_permissions, registering, services, code_uses, assignments, now, inflight>>

\* assign_teacher_code served by several workers: up to its last SELECT. Every check
\* passed and the session holds the rows it read, or a check failed and the request is
\* answered.
assign_teacher_code_begin(uid, code) ==
    /\ uid \notin DOMAIN inflight
    /\ IF assign_teacher_code_reject(uid, code) # NoResp
         THEN /\ resp' = assign_teacher_code_reject(uid, code)
              /\ UNCHANGED inflight
         ELSE /\ inflight' = [u \in DOMAIN inflight \cup {uid} |->
                                IF u = uid THEN [code |-> code, use_count |-> codes[code].use_count]
                                ELSE inflight[u]]
              /\ UNCHANGED resp
    /\ UNCHANGED <<users, rbac, role_permissions, registering, services, codes, code_uses, assignments, now, successes>>

\* ... and from user.roles.clear() to db.commit(): the UPDATE writes the use_count this
\* session read, plus one.
assign_teacher_code_commit(uid, clerk) ==
    /\ uid \in DOMAIN inflight
    /\ assign_teacher_code_write(uid, inflight[uid].code, inflight[uid].use_count, clerk)
    /\ inflight' = [u \in DOMAIN inflight \ {uid} |-> inflight[u]]
    /\ UNCHANGED <<rbac, role_permissions, registering, services, code_uses, assignments, now>>

validate_teacher_code(code, clerk_user_id, clerk) ==
    /\ code \in DOMAIN codes => codes[code].use_count < MaxUseCount /\ successes[code] < MaxUseCount
    /\ LET uid == UserByClerkId(users, clerk_user_id) IN
       IF CodeCheck(codes, code, now) # ""
         THEN /\ resp' = Resp("validate_teacher_code", 400, CodeCheck(codes, code, now), None, code)
              /\ UNCHANGED <<users, codes, successes>>
       ELSE IF uid = None
         THEN /\ resp' = Resp("validate_teacher_code", 404, "User not found", None, code)
              /\ UNCHANGED <<users, codes, successes>>
       ELSE IF "teacher" \notin DOMAIN role_permissions
         THEN /\ resp' = Resp("validate_teacher_code", 500, "Teacher role not configured", uid, code)
              /\ UNCHANGED <<users, codes, successes>>
       ELSE /\ users' = [users EXCEPT ![uid].roles = teacher_only(@),
                                       ![uid].name = IF clerk = "data" THEN ClerkFullName ELSE @,
                                       ![uid].is_verified = IF clerk = "data" THEN TRUE ELSE @]
            /\ codes' = [codes EXCEPT ![code].use_count = @ + 1]
            /\ successes' = [successes EXCEPT ![code] = @ + 1]
            /\ resp' = Resp("validate_teacher_code", 200, "Teacher code validated successfully", uid, code)
    /\ UNCHANGED <<rbac, role_permissions, registering, services, code_uses, assignments, now, inflight>>

\* use_teacher_code (POST /api/teacher-codes/use-teacher-code). current_user is the dict
\* get_current_user returns, so line 111, current_user.has_role("student"), raises
\* AttributeError and the request is answered 500; lines 117-198 are never reached.
use_teacher_code(token, jwks, code) ==
    \E r \in {GetCurrentUser(token, jwks, users, now)} :
        /\ Cardinality(DOMAIN r.users) <= MaxUsers
        /\ users' = r.users
        /\ resp' = IF r.identity = NoIdentity
                    THEN Resp("use_teacher_code", r.status, r.code, None, code)
                    ELSE Resp("use_teacher_code", 500, "Internal Server Error", r.identity.id, code)
        /\ UNCHANGED <<rbac, role_permissions, registering, services, codes, code_uses, assignments, now, inflight, successes>>

\* Workers that serve register_user at the same time
Workers == {1, 2}

\* register_user up to its last SELECT, served next to other workers: a check failed
\* and the request is answered, or the session holds what it read
register_user_begin(w, email, name, code) ==
    LET existing == UserByEmail(users, email)
        has_assignment == \E i \in 1..Len(assignments) : assignments[i].student_id = existing
        found == code \in DOMAIN codes /\ codes[code].is_active
        used_count == Cardinality({r \in code_uses : r.code_id = code})
        reject == IF existing # None /\ code # None /\ has_assignment
                    THEN "User with this email already exists and has a teacher assignment"
                  ELSE IF existing # None /\ code = None
                    THEN "User with this email already exists"
                  ELSE IF code # None /\ ~found THEN "Invalid teacher code"
                  ELSE IF code # None /\ codes[code].max_uses > 0
                             /\ used_count >= codes[code].max_uses
                    THEN "Teacher code has reached maximum uses"
                  ELSE ""
    IN
    /\ w \notin DOMAIN registering
    /\ IF reject # ""
         THEN /\ resp' = Resp("register_user",
                               IF reject = "Invalid teacher code"
                                  \/ reject = "Teacher code has reached maximum uses"
                               THEN 400 ELSE 409,
                               reject, existing, code)
              /\ UNCHANGED registering
         ELSE /\ registering' = [v \in DOMAIN registering \cup {w} |->
                                   IF v = w
                                   THEN [email |-> email, name |-> name, code |-> code,
                                         existing |-> existing]
                                   ELSE registering[v]]
              /\ UNCHANGED resp
    /\ UNCHANGED <<users, rbac, role_permissions, services, codes, code_uses, assignments,
                   now, inflight, successes>>

\* ... and from the INSERT of the user to the last db.commit(). The INSERT of a user
\* whose email another session has taken meanwhile breaks the unique constraint on
\* users.email, and the handler answers 500.
register_user_commit(w) ==
    /\ w \in DOMAIN registering
    /\ LET s == registering[w]
           uid == IF s.existing = None THEN Fresh(users) ELSE s.existing
       IN
       /\ s.existing = None => Cardinality(DOMAIN users) < MaxUsers
       /\ IF s.existing = None /\ UserByEmail(users, s.email) # None
            THEN /\ resp' = Resp("register_user", 500, "Failed to register user", None, s.code)
                 /\ UNCHANGED <<users, code_uses, assignments>>
            ELSE /\ users' = IF s.existing = None
                              THEN [u \in DOMAIN users \cup {uid} |->
                                       IF u = uid
                                       THEN UserRow(s.email, s.name, None, TRUE,
                                                    IF "student" \in DOMAIN role_permissions
                                                    THEN <<"student">> ELSE <<>>)
                                       ELSE users[u]]
                              ELSE [users EXCEPT ![uid].name = IF s.name # "" THEN s.name ELSE @]
                 /\ IF s.code # None
                      THEN /\ code_uses' = code_uses \cup {[code_id |-> s.code, student_id |-> uid]}
                           /\ assignments' = Append(assignments,
                                  [teacher_id |-> codes[s.code].teacher_id, student_id |-> uid,
                                   active |-> TRUE])
                      ELSE UNCHANGED <<code_uses, assignments>>
                 /\ resp' = Resp("register_user", 200, "registered", uid, s.code)
    /\ registering' = [v \in DOMAIN registering \ {w} |-> registering[v]]
    /\ UNCHANGED <<rbac, role_permissions, services, codes, now, inflight, successes>>

\* register_user (POST /api/auth/register), with or without a teacher code
register_user(email, name, code) ==
    LET existing == UserByEmail(users, email)
        has_assignment == \E i \in 1..Len(assignments) : assignments[i].student_id = existing
        \* filter(TeacherCode.code == request.teacher_code, TeacherCode.is_active == True)
        found == code \in DOMAIN codes /\ codes[code].is_active
        used_count == Cardinality({r \in code_uses : r.code_id = code})
        uid == IF existing = None THEN Fresh(users) ELSE existing
        created == IF existing = None
                   THEN [u \in DOMAIN users \cup {uid} |->
                            IF u = uid
                            THEN UserRow(email, name, None, TRUE,
                                         IF "student" \in DOMAIN role_permissions
                                         THEN <<"student">> ELSE <<>>)
                            ELSE users[u]]
                   ELSE [users EXCEPT ![uid].name = IF name # "" THEN name ELSE @]
    IN
    /\ existing = None => Cardinality(DOMAIN users) < MaxUsers
    /\ IF existing # None /\ code # None /\ has_assignment
         THEN /\ resp' = Resp("register_user", 409, "User with this email already exists and has a teacher assignment", existing, code)
              /\ UNCHANGED <<users, code_uses, assignments>>
       ELSE IF existing # None /\ code = None
         THEN /\ resp' = Resp("register_user", 409, "User with this email already exists", existing, code)
              /\ UNCHANGED <<users, code_uses, assignments>>
       ELSE IF code # None /\ ~found
         THEN /\ resp' = Resp("register_user", 400, "Invalid teacher code", existing, code)
              /\ UNCHANGED <<users, code_uses, assignments>>
       ELSE IF code # None /\ codes[code].max_uses > 0 /\ used_count >= codes[code].max_uses
         THEN /\ resp' = Resp("register_user", 400, "Teacher code has reached maximum uses", existing, code)
              /\ UNCHANGED <<users, code_uses, assignments>>
       ELSE /\ users' = created
            /\ IF code # None
                 THEN /\ code_uses' = code_uses \cup {[code_id |-> code, student_id |-> uid]}
                      /\ assignments' = Append(assignments,
                             [teacher_id |-> codes[code].teacher_id, student_id |-> uid, active |-> TRUE])
                 ELSE UNCHANGED <<code_uses, assignments>>
            /\ resp' = Resp("register_user", 200, "registered", uid, code)
    /\ UNCHANGED <<rbac, role_permissions, registering, services, codes, now, inflight, successes>>

\* complete_teacher_signup (POST /api/admin/teachers/signup); the password hash is
\* not part of the model
complete_teacher_signup(name, email, code) ==
    LET existing == UserByEmail(users, email)
        uid == IF existing = None THEN Fresh(users) ELSE existing
        code_ok == code \in DOMAIN codes
                   /\ ~(codes[code].teacher_id # None /\ codes[code].teacher_id # uid)
    IN
    /\ existing = None => Cardinality(DOMAIN users) < MaxUsers
    /\ IF ~code_ok
         \* the row added for an absent user is flushed but never committed
         THEN /\ resp' = Resp("complete_teacher_signup", 400, "Invalid teacher code", existing, code)
              /\ UNCHANGED users
       ELSE IF "teacher" \notin DOMAIN role_permissions
         THEN /\ resp' = Resp("complete_teacher_signup", 500, "Teacher role not configured", existing, code)
              /\ UNCHANGED users
       ELSE /\ users' = [users EXCEPT ![uid].roles = teacher_only(@),
                                       ![uid].is_verified = TRUE,
                                       ![uid].name = IF name # "" THEN name ELSE @]
            /\ resp' = Resp("complete_teacher_signup", 200, "Teacher signup completed. You can now log in.", uid, code)
    /\ UNCHANGED <<rbac, role_permissions, registering, services, codes, code_uses, assignments, now, inflight, successes>>

\* The body of delete_teacher_code: the row of the caller's code is deleted, and the
\* teacher_code_uses rows with it (cascade="all, delete-orphan")
delete_teacher_code_body(cs, teacher_id, code_id) ==
    IF code_id \in DOMAIN cs /\ cs[code_id].teacher_id = teacher_id
    THEN [status |-> 200, detail |-> "Teacher code deleted successfully",
          codes |-> [c \in DOMAIN cs \ {code_id} |-> cs[c]],
          uses |-> {u \in code_uses : u.code_id # code_id}]
    ELSE [status |-> 404, detail |-> "Teacher code not found", codes |-> cs, uses |-> code_uses]

\* DELETE /api/teacher-codes/{code_id}, behind @require_role("teacher")
delete_teacher_code(token, jwks, code_id) ==
    \E r \in {GetCurrentUser(token, jwks, users, now)} :
    \E g \in {IF r.identity = NoIdentity THEN Gate(r.status, r.code, FALSE)
               ELSE require_role(r.identity, Single("teacher"))} :
        /\ Cardinality(DOMAIN r.users) <= MaxUsers
        /\ users' = r.users
        /\ IF g.invoked
             THEN \E b \in {delete_teacher_code_body(codes, r.identity.id, code_id)} :
                    /\ codes' = b.codes
                    /\ code_uses' = b.uses
                    /\ resp' = Resp("delete_teacher_code", b.status, b.detail, r.identity.id, code_id)
             ELSE /\ resp' = Resp("delete_teacher_code", g.status, g.detail,
                                  IF r.identity = NoIdentity THEN None ELSE r.identity.id, code_id)
                  /\ UNCHANGED <<codes, code_uses>>
        /\ UNCHANGED <<rbac, role_permissions, registering, services, assignments, now, inflight, successes>>

Tick ==
    /\ now < MaxTime
    /\ now' = now + 1
    /\ UNCHANGED <<users, rbac, role_permissions, registering, services, codes, code_uses, assignments, inflight, successes, resp>>

----------------------------------------------------------------------------
(* The store a deployment starts from: the seeded administrator (admin and teacher, *)
(* owner of the teacher code, scripts/create_admin.py) and a student.                *)

SeedUsers ==
    [u \in {Uid(1), Uid(2)} |->
        IF u = Uid(1) THEN UserRow("t@x", "Toni", None, TRUE, <<"admin", "teacher">>)
                      ELSE UserRow("a@x", "Ann", "user_a", FALSE, <<"student">>)]

\* The bearer tokens of the requests
ClerkAnn == Jwt("k1", "clerk", 5, Payload("user_a", "a@x", "Ann", {TRUE}))
ClerkNew == Jwt("k1", "clerk", 1, Payload("user_n", "n@x", None, {FALSE}))
ClerkTemplated == Jwt("k1", "clerk", 5, Payload("user_m", Templated, None, {}))
ClerkUnknownKid == Jwt("kx", "clerk", 5, Payload("user_a", "a@x", "Ann", {TRUE}))
Forged == Jwt("k1", "other", 5, Payload("user_a", "a@x", "Ann", {TRUE}))
LocalToni == Jwt(None, "local", 5, Payload(Uid(1), "t@x", None, {}))
LocalAnn == Jwt(None, "local", 5, Payload(Uid(2), "a@x", None, {}))
LocalForeign == Jwt(None, "local", 5, Payload(ForeignUuid, None, None, {}))
LocalForeignEmail == Jwt(None, "local", 1, Payload(ForeignUuid, "b@x", "Bo", {}))
LocalNoSub == Jwt(None, "local", 5, Payload(None, "a@x", None, {}))
Tokens ==
    {ClerkAnn, ClerkNew, ClerkTemplated, ClerkUnknownKid, Forged,
     LocalToni, LocalAnn, LocalForeign, LocalForeignEmail, LocalNoSub,
     SessionToken("s1", 2), SessionToken("s1", 1), OpaqueToken}

RequestCodes == CodeIds \cup {NoSuchCode}
ClerkIds == {"user_a", "user_zz"}

\* The services before their first request
InitServices ==
    /\ jwks_cache = [jwks |-> None, expiry |-> {}]
    /\ refresh_tokens = <<>>
    /\ progress = [k \in {} |-> "not_started"]
    /\ manager = [active_connections |-> [u \in {} |-> {}],
                  websocket_to_user |-> [w \in {} |-> None],
                  accepted |-> {}]

InitTables(rp, cs) ==
    /\ InitServices
    /\ registering = [w \in {} |-> None]
    /\ users = SeedUsers
    /\ rbac = TablesOf(rp)
    /\ role_permissions = rp
    /\ codes = cs
    /\ code_uses = {}
    /\ assignments = <<>>
    /\ now = 0
    /\ inflight = [u \in {} |-> None]
    /\ successes = [c \in CodeIds |-> 0]
    /\ resp = NoResp

\* initialize_rbac has run; the administrator has issued one code
InitStore ==
    \E m \in (-1)..MaxUsesBound, e \in {{}, {0}}, a \in BOOLEAN :
        InitTables(DEFAULT_ROLES, [c \in CodeIds |-> CodeRow(Uid(1), m, e, a)])

\* The teacher-code endpoints, one request at a time
NextCodes ==
    \/ Tick
    \/ \E code \in RequestCodes : validate_teacher_code_exists(code)
    \/ \E uid \in UserIds, code \in RequestCodes, clerk \in ClerkAnswers :
          assign_teacher_code(uid, code, clerk)
    \/ \E code \in RequestCodes, cid \in ClerkIds, clerk \in ClerkAnswers :
          validate_teacher_code(code, cid, clerk)
    \/ \E email \in {"a@x", "n@x"}, code \in RequestCodes \cup {None} : register_user(email, "Ann", code)
    \/ \E email \in {"t@x", "n@x"}, code \in RequestCodes : complete_teacher_signup("Toni", email, code)
    \/ \E token \in {LocalAnn, Forged}, code \in RequestCodes : use_teacher_code(token, "up", code)
    \/ \E token \in {LocalToni, LocalAnn}, code \in RequestCodes : delete_teacher_code(token, "up", code)

SpecCodes == InitStore /\ [][NextCodes]_vars

\* The endpoints that write use_count, served by several workers
NextRace ==
    \/ Tick
    \/ \E uid \in UserIds, code \in RequestCodes : assign_teacher_code_begin(uid, code)
    \/ \E uid \in UserIds, clerk \in ClerkAnswers : assign_teacher_code_commit(uid, clerk)
    \/ \E code \in RequestCodes, cid \in ClerkIds, clerk \in ClerkAnswers :
          validate_teacher_code(code, cid, clerk)
    \/ \E email \in {"n@x"} : register_user(email, "Ann", None)

SpecRace == InitStore /\ [][NextRace]_vars

\* The same endpoints on a code issued for two uses (admin.py 45: max_uses is the
\* caller's choice)
InitTwoUses == InitTables(DEFAULT_ROLES, [c \in CodeIds |-> CodeRow(Uid(1), 2, {}, TRUE)])

SpecTwoUses == InitTwoUses /\ [][NextRace]_vars

\* Requests that only resolve an identity
NextAuth ==
    \/ Tick
    \/ \E token \in Tokens, jwks \in JwksStates : get_current_user(token, jwks)

SpecAuth == InitStore /\ [][NextAuth]_vars

\* Tokens that claim names: for Ann, whose stored name is specific, and for the user
\* whom an earlier token without a name left with the placeholder "User"
NamedTokens ==
    {Jwt("k1", "clerk", 5, Payload(sub, email, name, {}))
       : <<sub, email>> \in {<<"user_a", "a@x">>, <<"user_n", "n@x">>},
         name \in {None, "", "Development User", "Nina", "Nora"}}

InitNames ==
    /\ InitServices
    /\ registering = [w \in {} |-> None]
    /\ users = [u \in {Uid(1), Uid(2), Uid(3)} |->
                  IF u = Uid(3) THEN UserRow("n@x", "User", "user_n", FALSE, <<"student">>)
                  ELSE SeedUsers[u]]
    /\ rbac = TablesOf(DEFAULT_ROLES)
    /\ role_permissions = DEFAULT_ROLES
    /\ codes = [c \in CodeIds |-> CodeRow(Uid(1), 0, {}, TRUE)]
    /\ code_uses = {}
    /\ assignments = <<>>
    /\ now = 0
    /\ inflight = [u \in {} |-> None]
    /\ successes = [c \in CodeIds |-> 0]
    /\ resp = NoResp

NextNames ==
    \/ Tick
    \/ \E token \in NamedTokens \cup {LocalAnn}, jwks \in JwksStates : get_current_user(token, jwks)

SpecNames == InitNames /\ [][NextNames]_vars

\* The roles table after initialize_rbac, and the same with the catch-all permission
\* row given to the admin role (no code of the repository writes that row; both
\* permission predicates read it)
RoleTables == {DEFAULT_ROLES, [DEFAULT_ROLES EXCEPT !["admin"] = @ \cup {AdminAll}]}

InitGates ==
    \E rp \in RoleTables : InitTables(rp, [c \in CodeIds |-> CodeRow(Uid(1), 0, {}, TRUE)])

CheckedPermissions == {"course:read", "admin:users:manage", "content:upload", AdminAll}
GateTokens == {LocalToni, LocalAnn, ClerkNew, LocalForeign, Forged, OpaqueToken}

\* Requests to gated endpoints, and the permission predicates on stored users
NextGates ==
    \/ \E uid \in UserIds, p \in CheckedPermissions : evaluate_permission(uid, p)
    \/ \E token \in GateTokens, jwks \in JwksStates, t \in UserIds, s \in UserIds :
          create_teacher_assignment(token, jwks, t, s)
    \/ \E token \in GateTokens, jwks \in JwksStates : get_or_create_my_teacher_code(token, jwks)
    \/ \E token \in GateTokens, jwks \in JwksStates, s \in UserIds, t \in UserIds :
          assign_teacher(token, jwks, s, t)

SpecGates == InitGates /\ [][NextGates]_vars

----------------------------------------------------------------------------
(* Account removal: app/routes/profile.py, app/routes/admin.py,              *)
(* app/routes/clerk_webhooks.py                                              *)

\* f"deleted_{user_id}_{user.email}"
MangledEmail(user_id, email) == "deleted_" \o user_id \o "_" \o email

\* user.is_active = False; user.email = f"deleted_{user_id}_{user.email}"
soft_delete(us, user_id) ==
    [us EXCEPT ![user_id].is_active = FALSE, ![user_id].email = MangledEmail(user_id, @)]

is_teacher(us, user_id) ==
    Contains(us[user_id].roles, "teacher") \/ Contains(us[user_id].roles, "admin")

\* The active teacher_assignments rows of a teacher handed over to another user
reassign(rows, teacher_id, to) ==
    [i \in 1..Len(rows) |->
        IF rows[i].teacher_id = teacher_id /\ rows[i].active
        THEN [rows[i] EXCEPT !.teacher_id = to] ELSE rows[i]]

\* .update({"active": False}) on the active teacher_assignments rows of a teacher
deactivate_assignments(rows, teacher_id) ==
    [i \in 1..Len(rows) |->
        IF rows[i].teacher_id = teacher_id /\ rows[i].active
        THEN [rows[i] EXCEPT !.active = FALSE] ELSE rows[i]]

\* The active admins other than the user: the candidates of default_admin
default_admins(us, user_id) ==
    {u \in DOMAIN us \ {user_id} : Contains(us[u].roles, "admin") /\ us[u].is_active}

AccountResp(op, status, detail, identity, user) ==
    [op |-> op, status |-> status, detail |-> detail, identity |-> identity, user |-> user,
     at |-> now]

\* DELETE /api/user/account: the caller removes the caller's own account
delete_account(token, jwks) ==
    \E r \in {GetCurrentUser(token, jwks, users, now)} :
        /\ Cardinality(DOMAIN r.users) <= MaxUsers
        /\ IF r.identity = NoIdentity
             THEN /\ users' = r.users
                  /\ resp' = AccountResp("delete_account", r.status, r.code, NoIdentity, None)
                  /\ UNCHANGED assignments
             ELSE /\ users' = soft_delete(r.users, r.identity.id)
                  /\ resp' = AccountResp("delete_account", 200, "Account deleted successfully",
                                         r.identity, r.identity.id)
                  /\ IF is_teacher(r.users, r.identity.id) /\ "admin" \in DOMAIN role_permissions
                       THEN IF default_admins(r.users, r.identity.id) # {}
                              THEN \E a \in default_admins(r.users, r.identity.id) :
                                      assignments' = reassign(assignments, r.identity.id, a)
                              ELSE assignments' = deactivate_assignments(assignments, r.identity.id)
                       ELSE UNCHANGED assignments
        /\ UNCHANGED <<rbac, role_permissions, registering, services, codes, code_uses, now, inflight, successes>>

\* The body of delete_user_account: the answer, the users and the teacher_assignments
delete_user_account_body(us, current_user, user_id) ==
    IF current_user.id = user_id
      THEN [status |-> 400, detail |-> "You cannot delete your own account",
            users |-> us, rows |-> assignments]
    ELSE IF user_id \notin DOMAIN us
      THEN [status |-> 404, detail |-> "User not found", users |-> us, rows |-> assignments]
    ELSE [status |-> 200, detail |-> "Account deleted successfully",
          users |-> soft_delete(us, user_id),
          rows |-> IF is_teacher(us, user_id)
                   THEN reassign(assignments, user_id, current_user.id) ELSE assignments]

\* DELETE /api/admin/users/{user_id}, behind @require_permission("admin:users:manage")
delete_user_account(token, jwks, user_id) ==
    \E r \in {GetCurrentUser(token, jwks, users, now)} :
    \E g \in {IF r.identity = NoIdentity THEN Gate(r.status, r.code, FALSE)
               ELSE require_permission(r.identity, "admin:users:manage")} :
        /\ Cardinality(DOMAIN r.users) <= MaxUsers
        /\ IF g.invoked
             THEN \E b \in {delete_user_account_body(r.users, r.identity, user_id)} :
                    /\ users' = b.users
                    /\ assignments' = b.rows
                    /\ resp' = AccountResp("delete_user_account", b.status, b.detail,
                                           r.identity, user_id)
             ELSE /\ users' = r.users
                  /\ resp' = AccountResp("delete_user_account", g.status, g.detail,
                                         r.identity, user_id)
                  /\ UNCHANGED assignments
        /\ UNCHANGED <<rbac, role_permissions, registering, services, codes, code_uses, now, inflight, successes>>

\* The user.deleted event of POST /api/clerk-webhook; the signature is not verified and
\* the answer is {"status": "success"} whether or not a row was found
handle_user_deleted(clerk_user_id) ==
    /\ users' = IF UserByClerkId(users, clerk_user_id) = None THEN users
                ELSE [users EXCEPT ![UserByClerkId(users, clerk_user_id)].is_active = FALSE]
    /\ resp' = AccountResp("handle_user_deleted", 200, "success", NoIdentity,
                           UserByClerkId(users, clerk_user_id))
    /\ UNCHANGED <<rbac, role_permissions, registering, services, codes, code_uses, assignments, now, inflight, successes>>

\* db.delete(user): the row goes, the ORM sets the teacher_id / student_id of the
\* user's teacher_assignments rows to NULL, and ON DELETE CASCADE removes the user's
\* teacher codes and the teacher_code_uses rows that point at the user or at those codes
hard_delete_assignments(rows, user_id) ==
    [i \in 1..Len(rows) |->
        [rows[i] EXCEPT !.teacher_id = IF @ = user_id THEN None ELSE @,
                        !.student_id = IF @ = user_id THEN None ELSE @]]

\* The user.deleted event of POST /webhooks/clerk, the router of app/auth.py (no
\* application object includes this router). signed: the svix-signature header is the
\* hex HMAC-SHA256 of the body under CLERK_WEBHOOK_SECRET. favorites: the user has rows
\* in user_favorites or user_chapter_favorites, whose user_id is NOT NULL: the ORM's
\* UPDATE ... SET user_id = NULL fails, nothing is caught, the transaction is lost.
clerk_webhook(clerk_user_id, signed, favorites) ==
    \E user \in {UserByClerkId(users, clerk_user_id)} :
        /\ IF ~signed
             THEN /\ resp' = AccountResp("clerk_webhook", 401, "Invalid webhook signature",
                                         NoIdentity, None)
                  /\ UNCHANGED <<users, codes, code_uses, assignments>>
           ELSE IF user = None
             THEN /\ resp' = AccountResp("clerk_webhook", 200, "success", NoIdentity, None)
                  /\ UNCHANGED <<users, codes, code_uses, assignments>>
           ELSE IF favorites
             THEN /\ resp' = AccountResp("clerk_webhook", 500, "Internal Server Error",
                                         NoIdentity, user)
                  /\ UNCHANGED <<users, codes, code_uses, assignments>>
           ELSE /\ users' = [u \in DOMAIN users \ {user} |-> users[u]]
                /\ assignments' = hard_delete_assignments(assignments, user)
                /\ codes' = [c \in {d \in DOMAIN codes : codes[d].teacher_id # user} |-> codes[c]]
                /\ code_uses' = {r \in code_uses :
                                    /\ r.student_id # user
                                    /\ r.code_id \in DOMAIN codes
                                    /\ codes[r.code_id].teacher_id # user}
                /\ resp' = AccountResp("clerk_webhook", 200, "success", NoIdentity, user)
        /\ UNCHANGED <<rbac, role_permissions, registering, services, now, inflight, successes>>

AccountTokens == {LocalAnn, ClerkAnn, LocalToni, ClerkNew, Forged}

\* The store the account requests start from
InitAccounts == InitTables(DEFAULT_ROLES, [c \in CodeIds |-> CodeRow(Uid(1), 0, {}, TRUE)])

\* Accounts are removed, resolved and registered, one request at a time
NextAccounts ==
    \/ \E token \in AccountTokens, jwks \in JwksStates : get_current_user(token, jwks)
    \/ \E token \in AccountTokens, jwks \in JwksStates : delete_account(token, jwks)
    \/ \E token \in AccountTokens, jwks \in JwksStates, u \in UserIds :
          delete_user_account(token, jwks, u)
    \/ \E cid \in ClerkIds : handle_user_deleted(cid)
    \/ \E email \in {"a@x", "n@x"}, code \in CodeIds \cup {None} : register_user(email, "Ann", code)

SpecAccounts == InitAccounts /\ [][NextAccounts]_vars

\* The requests that create, move or deactivate teacher-student links, served by
\* several workers
NextLinks ==
    \/ \E w \in Workers, email \in {"a@x", "n@x"}, code \in CodeIds \cup {None} :
          register_user_begin(w, email, "Ann", code)
    \/ \E w \in Workers : register_user_commit(w)
    \/ \E token \in {LocalAnn, LocalToni} : delete_account(token, "up")
    \/ \E t \in UserIds, s \in UserIds : create_teacher_assignment(LocalToni, "up", t, s)
    \/ \E u \in UserIds : delete_user_account(LocalToni, "up", u)
    \/ use_teacher_code(LocalAnn, "up", "CODE1")

SpecLinks == InitAccounts /\ [][NextLinks]_vars

\* Every handler of the repository that removes an account, and the requests that
\* create the accounts they remove
NextRemoval ==
    \/ \E token \in {LocalAnn, ClerkAnn} : get_current_user(token, "up")
    \/ \E token \in {LocalAnn, LocalToni} : delete_account(token, "up")
    \/ \E u \in UserIds : delete_user_account(LocalToni, "up", u)
    \/ \E cid \in ClerkIds : handle_user_deleted(cid)
    \/ \E cid \in ClerkIds, signed, favorites \in BOOLEAN : clerk_webhook(cid, signed, favorites)
    \/ register_user("a@x", "Ann", None)

SpecRemoval == InitAccounts /\ [][NextRemoval]_vars

----------------------------------------------------------------------------
(* Process startup: app/main.py runs initialize_rbac of app/rbac.py *)

\* startup_event: initialize_rbac(db) on the tables as the process finds them
initialize_rbac ==
    /\ rbac' = InitializeRbac(rbac)
    /\ role_permissions' = RolePermissions(InitializeRbac(rbac))
    /\ resp' = [op |-> "initialize_rbac", status |-> 200,
                detail |-> "RBAC system initialized successfully", before |-> rbac]
    /\ UNCHANGED <<users, codes, code_uses, assignments, now, inflight, successes, registering, services>>

\* Rows a database can hold before a startup: some of the permissions (among them one
\* DEFAULT_ROLES does not know), some of the roles, some of the links between them
StartupPermissions == {"user:read", "course:read", AdminAll}
StartupLinks == {<<"student", "user:read">>, <<"admin", AdminAll>>, <<"teacher", "course:read">>}

InitStartup ==
    \E ps \in SUBSET StartupPermissions, rs \in SUBSET RoleNames, ls \in SUBSET StartupLinks :
        /\ \A l \in ls : l[1] \in rs /\ l[2] \in ps
        /\ rbac = Tables(SetToBag(ps), SetToBag(rs), SetToBag(ls))
        /\ role_permissions = RolePermissions(Tables(SetToBag(ps), SetToBag(rs), SetToBag(ls)))
        /\ InitServices
        /\ registering = [w \in {} |-> None]
        /\ users = [u \in {} |-> None]
        /\ codes = [c \in {} |-> None]
        /\ code_uses = {}
        /\ assignments = <<>>
        /\ now = 0
        /\ inflight = [u \in {} |-> None]
        /\ successes = [c \in CodeIds |-> 0]
        /\ resp = NoResp

NextStartup == initialize_rbac

SpecStartup == InitStartup /\ [][NextStartup]_vars

----------------------------------------------------------------------------
(* The key-set cache: app/clerk_jwt.py *)

MaxClock == 4         \* clock ticks of the key-set cache
CacheTtl == 2         \* clock ticks a fetched key set is kept (3600 s in the code)

\* What the JWKS endpoint can answer: nothing (an error, a timeout, a body that is not
\* JSON), a key set, the key set after a rotation, or the empty JSON object
EmptyDocument == "{}"
JwksAnswers == {"down", "keys-1", "keys-2", EmptyDocument}

\* The same test without the comparison with the clock
cache_valid_for_ever(cache, t) ==
    /\ cache.jwks \notin {None, EmptyDocument}
    /\ \E e \in cache.expiry : e # 0

\* `self._jwks_cache and self._cache_expiry and time.time() < self._cache_expiry`
cache_valid(cache, t) ==
    /\ cache.jwks \notin {None, EmptyDocument}
    /\ \E e \in cache.expiry : e # 0 /\ t < e

\* ClerkJWKS.get_jwks, with the answer the endpoint would give to a fetch
get_jwks(upstream) ==
    /\ IF cache_valid(jwks_cache, now)
         THEN /\ resp' = [op |-> "get_jwks", status |-> 200, detail |-> "", at |-> now,
                          fetched |-> FALSE, returned |-> jwks_cache.jwks]
              /\ UNCHANGED jwks_cache
       ELSE IF upstream = "down"
         THEN /\ resp' = [op |-> "get_jwks", status |-> 500, detail |-> "JWKS_FETCH_FAILED",
                          at |-> now, fetched |-> TRUE, returned |-> None]
              /\ UNCHANGED jwks_cache
       ELSE /\ jwks_cache' = [jwks |-> upstream, expiry |-> {now + CacheTtl}]
            /\ resp' = [op |-> "get_jwks", status |-> 200, detail |-> "", at |-> now,
                        fetched |-> TRUE, returned |-> upstream]
    /\ UNCHANGED <<store, refresh_tokens, progress, manager>>

\* time.time() moves on
clock_advance ==
    /\ now < MaxClock
    /\ now' = now + 1
    /\ UNCHANGED <<users, rbac, role_permissions, codes, code_uses, assignments, inflight,
                   successes, registering, services, resp>>

NextJwks ==
    \/ clock_advance
    \/ \E upstream \in JwksAnswers : get_jwks(upstream)

SpecJwks == InitAccounts /\ [][NextJwks]_vars

----------------------------------------------------------------------------
(* Token exchange: app/routes/auth.py *)

\* A lookup in student_teacher_access, the table register_user never writes
existing_access(rows, user_id) == FALSE

\* filter(TeacherAssignment.student_id == user.id, TeacherAssignment.active == True).first()
existing_assignment(rows, user_id) ==
    \E i \in 1..Len(rows) : rows[i].student_id = user_id /\ rows[i].active

\* clerk_exchange (POST /api/auth/clerk-exchange): the user with the email `identifier`,
\* created as a student if absent. requires_teacher_code is {} where the answer leaves
\* it unset. The tokens of the answer are not part of the model.
clerk_exchange(identifier) ==
    LET found == UserByEmail(users, identifier)
        uid == IF found = None THEN Fresh(users) ELSE found
        us == IF found # None THEN users
              ELSE [u \in DOMAIN users \cup {uid} |->
                       IF u = uid
                       THEN UserRow(identifier, identifier, None, TRUE,
                                    IF "student" \in DOMAIN role_permissions
                                    THEN <<"student">> ELSE <<>>)
                       ELSE users[u]]
    IN
    /\ found = None => Cardinality(DOMAIN users) < MaxUsers
    /\ users' = us
    /\ resp' = [op |-> "clerk_exchange", status |-> 200, detail |-> "", user |-> uid, at |-> now,
                requires_teacher_code |->
                    IF Contains(us[uid].roles, "teacher") \/ Contains(us[uid].roles, "admin")
                    THEN {}
                    ELSE {~existing_assignment(assignments, uid)}]
    /\ UNCHANGED <<rbac, role_permissions, registering, services, codes, code_uses, assignments,
                   now, inflight, successes>>

\* The student redemption endpoints, the exchange, and the account removal that
\* deactivates links
NextExchange ==
    \/ \E email \in {"a@x", "n@x"}, code \in CodeIds \cup {None} : register_user(email, "Ann", code)
    \/ \E token \in {LocalAnn, Forged} : use_teacher_code(token, "up", "CODE1")
    \/ \E identifier \in {"a@x", "n@x", "t@x"} : clerk_exchange(identifier)
    \/ \E token \in {LocalToni, LocalAnn} : delete_account(token, "up")

SpecExchange == InitAccounts /\ [][NextExchange]_vars

\* The three teacher-onboarding endpoints of app/routes/admin.py
NextOnboarding ==
    \/ Tick
    \/ \E uid \in UserIds, code \in RequestCodes, clerk \in ClerkAnswers :
          assign_teacher_code(uid, code, clerk)
    \/ \E code \in RequestCodes, cid \in ClerkIds, clerk \in ClerkAnswers :
          validate_teacher_code(code, cid, clerk)
    \/ \E name \in {"Toni", ""}, email \in {"t@x", "a@x", "n@x"}, code \in RequestCodes :
          complete_teacher_signup(name, email, code)

SpecOnboarding == InitStore /\ [][NextOnboarding]_vars

----------------------------------------------------------------------------
(* Refresh tokens: POST /api/auth/refresh, registered three times *)

MaxRows == 2          \* rows of the refresh_tokens table
JWT_REFRESH_TTL == 30

\* create_refresh_token (app/utils/auth.py 39-51): a signed JWT of type "refresh" with the
\* user's id and the time of issue. register_user and clerk_exchange hand such tokens
\* out without a refresh_tokens row, login with one.
RefreshJwt(user_id, iat) == <<"eyJ", user_id, iat>>
NotAJwt == <<"opaque", "", 0>>
NoToken == <<>>

\* hash_password (main.py 454-456): bcrypt with a salt drawn by gensalt() at every call
hash_password(text, salt) == <<"$2b$", salt, text>>
\* a salt no stored hash was made with
gensalt(rows) ==
    LET used == {rows[i].token_hash[2] : i \in 1..Len(rows)}
    IN  CHOOSE n \in 1..(Len(rows) + 1) : n \notin used /\ \A m \in 1..(n - 1) : m \in used

RefreshRow(user_id, token_hash, expires_at) ==
    [user_id |-> user_id, token_hash |-> token_hash, expires_at |-> expires_at, revoked |-> FALSE]

\* The refresh tokens a client can present: those issued to a user up to now, and text
\* that is no JWT
PresentedTokens == {RefreshJwt(u, t) : u \in UserIds, t \in 0..now} \cup {NotAJwt}

IsJwt(token) == token[1] = "eyJ"

RefreshResp(op, status, detail, presented, issued) ==
    [op |-> op, status |-> status, detail |-> detail, presented |-> presented,
     refresh_token |-> issued, at |-> now]

\* login (main.py 900-944): credentials_ok stands for verify_password on a user who has a
\* password
login(user_id, credentials_ok) ==
    /\ Len(refresh_tokens) < MaxRows
    /\ IF user_id \notin DOMAIN users \/ ~credentials_ok
         THEN /\ resp' = RefreshResp("login", 401, "INVALID_CREDENTIALS", NoToken, {})
              /\ UNCHANGED refresh_tokens
         ELSE /\ refresh_tokens' = Append(refresh_tokens,
                     RefreshRow(user_id,
                                hash_password(RefreshJwt(user_id, now), gensalt(refresh_tokens)),
                                now + JWT_REFRESH_TTL))
              /\ resp' = RefreshResp("login", 200, "", NoToken, {RefreshJwt(user_id, now)})
    /\ UNCHANGED <<store, jwks_cache, progress, manager>>

\* refresh_token of app/routes/auth.py (372-406), the first handler registered for the
\* path in both applications: the one that serves it. Every HTTPException raised in the
\* try block is caught by `except Exception` and answered 401.
refresh_token(token) ==
    /\ resp' = (IF ~IsJwt(token) \/ token[2] \notin DOMAIN users
                THEN RefreshResp("refresh_token", 401, "Token refresh failed", token, {})
                ELSE RefreshResp("refresh_token", 200, "", token, {token}))
    /\ UNCHANGED <<store, services>>

\* refresh_access_token (main.py 1040-1126), registered second
refresh_access_token(token) ==
    LET user_id == token[2]
        live == {i \in 1..Len(refresh_tokens) :
                    refresh_tokens[i].user_id = user_id /\ refresh_tokens[i].expires_at > now}
        new_refresh_token == RefreshJwt(user_id, now)
        new_hash == hash_password(new_refresh_token, gensalt(refresh_tokens))
    IN
    /\ IF ~IsJwt(token)
         THEN /\ resp' = RefreshResp("refresh_access_token", 401, "INVALID_TOKEN", token, {})
              /\ UNCHANGED refresh_tokens
       ELSE IF live = {}
         THEN /\ resp' = RefreshResp("refresh_access_token", 401, "INVALID_REFRESH_TOKEN", token, {})
              /\ UNCHANGED refresh_tokens
       ELSE IF user_id \notin DOMAIN users
         THEN /\ resp' = RefreshResp("refresh_access_token", 404, "USER_NOT_FOUND", token, {})
              /\ UNCHANGED refresh_tokens
       ELSE /\ refresh_tokens' =
                  [i \in 1..Len(refresh_tokens) |->
                      IF refresh_tokens[i].user_id = user_id
                      THEN [refresh_tokens[i] EXCEPT !.token_hash = new_hash,
                                                     !.expires_at = now + JWT_REFRESH_TTL]
                      ELSE refresh_tokens[i]]
            /\ resp' = RefreshResp("refresh_access_token", 200, "", token, {new_refresh_token})
    /\ UNCHANGED <<store, jwks_cache, progress, manager>>

\* SELECT ... FROM refresh_tokens WHERE token_hash = $1
rows_with_hash(rows, text) == {i \in 1..Len(rows) : rows[i].token_hash = text}

\* refresh_token of main.py (1489-1582), registered third. A JWT is looked up by its own
\* text, any other token by a hash made with a new salt.
main_refresh_token(token) ==
    LET found == IF IsJwt(token)
                 THEN rows_with_hash(refresh_tokens, token)
                 ELSE rows_with_hash(refresh_tokens,
                                     hash_password(token, gensalt(refresh_tokens)))
        token_record == refresh_tokens[CHOOSE i \in found : TRUE]
        user_id == IF found = {} THEN token[2] ELSE token_record.user_id
        reject(detail) ==
            /\ resp' = RefreshResp("main_refresh_token", 401, detail, token, {})
            /\ UNCHANGED refresh_tokens
        revoked == [i \in 1..Len(refresh_tokens) |->
                       IF i \in rows_with_hash(refresh_tokens, token)
                          \/ i \in rows_with_hash(refresh_tokens,
                                                  hash_password(token, gensalt(refresh_tokens)))
                       THEN [refresh_tokens[i] EXCEPT !.revoked = TRUE]
                       ELSE refresh_tokens[i]]
    IN
    /\ Len(refresh_tokens) < MaxRows
    /\ IF ~IsJwt(token) /\ found = {} THEN reject("Invalid refresh token")
       ELSE IF found # {} /\ token_record.expires_at < now THEN reject("Refresh token expired")
       ELSE IF found # {} /\ token_record.revoked THEN reject("Refresh token revoked")
       ELSE IF user_id \notin DOMAIN users THEN reject("User not found")
       ELSE /\ refresh_tokens' = Append(revoked,
                     RefreshRow(user_id,
                                hash_password(RefreshJwt(user_id, now), gensalt(refresh_tokens)),
                                now + JWT_REFRESH_TTL))
            /\ resp' = RefreshResp("main_refresh_token", 200, "", token, {RefreshJwt(user_id, now)})
    /\ UNCHANGED <<store, jwks_cache, progress, manager>>

\* The handlers of /api/auth/login and /api/auth/refresh
NextRefresh ==
    \/ Tick
    \/ \E user_id \in UserIds, credentials_ok \in BOOLEAN : login(user_id, credentials_ok)
    \/ \E token \in PresentedTokens : refresh_token(token)
    \/ \E token \in PresentedTokens : refresh_access_token(token)
    \/ \E token \in PresentedTokens : main_refresh_token(token)

SpecRefresh == InitAccounts /\ [][NextRefresh]_vars

----------------------------------------------------------------------------
(* Lessons: app/routes/courses.py. `progress` is the table user_module_progress, its *)
(* rows keyed by <<user_id, module_id>> and holding the column status: the model     *)
(* UserModuleProgress (models.py 308-316) has no column quiz_score.                  *)

\* The modules of course 1: three lessons of one chapter in their order, the last of
\* them retired, and a lesson of another chapter
ModuleRow(chapter_id, order, is_active) ==
    [chapter_id |-> chapter_id, order |-> order, is_active |-> is_active]
Modules ==
    [m \in {11, 12, 13, 21} |->
        IF m = 21 THEN ModuleRow(2, 1, TRUE) ELSE ModuleRow(1, m - 10, m # 13)]
RequestModules == DOMAIN Modules \cup {99}
QuizScores == {{}, {40}, {60}, {85}}

\* filter(chapter_id == module.chapter_id, is_active == True).order_by(Module.order)
all_modules(module_id) ==
    {m \in DOMAIN Modules : Modules[m].chapter_id = Modules[module_id].chapter_id
                            /\ Modules[m].is_active}
\* the position of the module in that list, {} if it is not in it
current_module_index(module_id) ==
    IF module_id \notin all_modules(module_id) THEN {}
    ELSE {Cardinality({m \in all_modules(module_id) : Modules[m].order < Modules[module_id].order})}
previous_module(module_id) ==
    CHOOSE m \in all_modules(module_id) :
        /\ Modules[m].order < Modules[module_id].order
        /\ \A k \in all_modules(module_id) :
              Modules[k].order < Modules[module_id].order => Modules[k].order <= Modules[m].order

LessonResp(op, status, detail, user_id, module_id, quiz_score, can_access) ==
    [op |-> op, status |-> status, detail |-> detail, user |-> user_id, module |-> module_id,
     quiz_score |-> quiz_score, can_access |-> can_access, at |-> now]

\* complete_lesson (POST /api/learn/complete-lesson) for the authenticated user_id.
\* Without a progress row the handler builds UserModuleProgress(..., quiz_score=...):
\* the constructor raises TypeError, nothing is committed and the answer is 500. With a
\* row it writes status and completed_at; quiz_score is set on the object only.
complete_lesson(user_id, module_id, quiz_score) ==
    LET status_value == IF quiz_score = {} \/ \E q \in quiz_score : q >= 60
                        THEN "completed" ELSE "failed"
        key == <<user_id, module_id>>
    IN
    /\ IF module_id \notin DOMAIN Modules
         THEN /\ resp' = LessonResp("complete_lesson", 404, "Module not found",
                                    user_id, module_id, quiz_score, {})
              /\ UNCHANGED progress
       ELSE IF key \notin DOMAIN progress
         THEN /\ resp' = LessonResp("complete_lesson", 500, "INTERNAL_ERROR",
                                    user_id, module_id, quiz_score, {})
              /\ UNCHANGED progress
       ELSE /\ progress' = [progress EXCEPT ![key] = status_value]
            /\ resp' = LessonResp("complete_lesson", 200, "Lesson completed successfully",
                                  user_id, module_id, quiz_score, {})
    /\ UNCHANGED <<store, jwks_cache, refresh_tokens, manager>>

\* check_module_access (GET /api/courses/{course_id}/modules/{module_id}/can-access).
\* Reading previous_progress.quiz_score on a row raises AttributeError: 500.
check_module_access(user_id, module_id) ==
    /\ resp' =
        (IF module_id \notin DOMAIN Modules
           THEN LessonResp("check_module_access", 404, "Module not found", user_id, module_id, {}, {})
         ELSE IF current_module_index(module_id) = {}
           THEN LessonResp("check_module_access", 404, "Module not found in course structure",
                           user_id, module_id, {}, {})
         ELSE IF current_module_index(module_id) = {0}
           THEN LessonResp("check_module_access", 200, "First module in chapter/course",
                           user_id, module_id, {}, {TRUE})
         ELSE IF <<user_id, previous_module(module_id)>> \notin DOMAIN progress
           THEN LessonResp("check_module_access", 200, "Previous module must be completed",
                           user_id, module_id, {}, {FALSE})
         ELSE LessonResp("check_module_access", 500, "INTERNAL_ERROR", user_id, module_id, {}, {}))
    /\ UNCHANGED <<store, services>>

\* The lesson endpoints, called by the users of the store
NextProgress ==
    \/ Tick
    \/ \E user_id \in DOMAIN users, module_id \in RequestModules, quiz_score \in QuizScores :
          complete_lesson(user_id, module_id, quiz_score)
    \/ \E user_id \in DOMAIN users, module_id \in RequestModules :
          check_module_access(user_id, module_id)

SpecProgress == InitAccounts /\ [][NextProgress]_vars

----------------------------------------------------------------------------
(* Websockets: ConnectionManager of app/realtime.py. `manager` holds its two maps, *)
(* and in `accepted` the websockets whose accept() has been called.                *)

WebSockets == {"ws1", "ws2", "ws3"}
ChatUsers == {"1", "2"}

\* active_connections[user_id].add(websocket); websocket_to_user[websocket] = user_id,
\* after websocket.accept()
registered(m, websocket, user_id) ==
    [active_connections |->
        [u \in DOMAIN m.active_connections \cup {user_id} |->
            IF u = user_id
            THEN (IF u \in DOMAIN m.active_connections THEN m.active_connections[u] ELSE {})
                 \cup {websocket}
            ELSE m.active_connections[u]],
     websocket_to_user |->
        [w \in DOMAIN m.websocket_to_user \cup {websocket} |->
            IF w = websocket THEN user_id ELSE m.websocket_to_user[w]],
     accepted |-> m.accepted \cup {websocket}]

\* disconnect without `del self.active_connections[user_id]`
disconnect_keeping_entry(m, websocket) ==
    IF websocket \notin DOMAIN m.websocket_to_user THEN m
    ELSE [m EXCEPT
            !.active_connections =
                [u \in DOMAIN @ |-> IF u = m.websocket_to_user[websocket]
                                    THEN @[u] \ {websocket} ELSE @[u]],
            !.websocket_to_user = [w \in DOMAIN @ \ {websocket} |-> @[w]]]

\* ConnectionManager.disconnect
disconnect(m, websocket) ==
    IF websocket \notin DOMAIN m.websocket_to_user THEN m
    ELSE LET user_id == m.websocket_to_user[websocket]
             left == IF user_id \in DOMAIN m.active_connections
                     THEN m.active_connections[user_id] \ {websocket} ELSE {}
         IN [m EXCEPT
               !.active_connections =
                   [u \in {v \in DOMAIN @ : v # user_id \/ left # {}} |->
                       IF u = user_id THEN left ELSE @[u]],
               !.websocket_to_user = [w \in DOMAIN @ \ {websocket} |-> @[w]]]

RECURSIVE disconnect_all(_, _)
disconnect_all(m, dead_connections) ==
    IF dead_connections = {} THEN m
    ELSE LET websocket == CHOOSE w \in dead_connections : TRUE
         IN  disconnect_all(disconnect(m, websocket), dead_connections \ {websocket})

SocketResp(op, websocket, user_id) == [op |-> op, websocket |-> websocket, user |-> user_id]

\* websocket_chat_endpoint (app/main.py 122-141) on a new connection: accept, then the
\* registration in one piece
websocket_chat_endpoint(websocket, user_id) ==
    /\ websocket \notin manager.accepted
    /\ manager' = registered(manager, websocket, user_id)
    /\ resp' = SocketResp("websocket_chat_endpoint", websocket, user_id)
    /\ UNCHANGED <<store, jwks_cache, refresh_tokens, progress>>

\* ... and its end (app/main.py 163-174): the client is gone or an exception was raised
websocket_closed(websocket) ==
    /\ websocket \in manager.accepted
    /\ manager' = disconnect(manager, websocket)
    /\ resp' = SocketResp("websocket_closed", websocket, None)
    /\ UNCHANGED <<store, jwks_cache, refresh_tokens, progress>>

\* ConnectionManager.connect: websocket.accept() raises on a websocket that was accepted
\* before, and nothing is registered then
connect(websocket, user_id) ==
    /\ manager' = (IF websocket \in manager.accepted THEN manager
                   ELSE registered(manager, websocket, user_id))
    /\ resp' = SocketResp("connect", websocket, user_id)
    /\ UNCHANGED <<store, jwks_cache, refresh_tokens, progress>>

\* send_personal_message: send_text fails on the websockets in `failing`; they are
\* disconnected after the loop. The loop awaits at every send: when the user's set
\* changes meanwhile the iteration raises and nothing is cleaned up (interrupted).
send_personal_message(user_id, failing, interrupted) ==
    /\ manager' = (IF user_id \notin DOMAIN manager.active_connections \/ interrupted
                   THEN manager
                   ELSE disconnect_all(manager, manager.active_connections[user_id] \cap failing))
    /\ resp' = SocketResp("send_personal_message", None, user_id)
    /\ UNCHANGED <<store, jwks_cache, refresh_tokens, progress>>

NextSockets ==
    \/ \E websocket \in WebSockets, user_id \in ChatUsers : websocket_chat_endpoint(websocket, user_id)
    \/ \E websocket \in WebSockets : websocket_closed(websocket)
    \/ \E websocket \in WebSockets, user_id \in ChatUsers : connect(websocket, user_id)
    \/ \E user_id \in ChatUsers, failing \in SUBSET WebSockets, interrupted \in BOOLEAN :
          send_personal_message(user_id, failing, interrupted)

SpecSockets == InitAccounts /\ [][NextSockets]_vars

----------------------------------------------------------------------------
(* Claims *)

RedemptionOps ==
    {"use_teacher_code", "register_user", "assign_teacher_code", "validate_teacher_code",
     "complete_teacher_signup"}

Redeemed == resp.op \in RedemptionOps /\ resp.status = 200 /\ resp.row # {}

\* C1: for a code with max_uses = N > 0, under any interleaving of redemption attempts
\* at most N attempts succeed and use_count never exceeds max_uses.
C1_AtMostMaxUses ==
    \A c \in CodeIds :
        codes[c].max_uses > 0 =>
            /\ successes[c] <= codes[c].max_uses
            /\ codes[c].use_count <= codes[c].max_uses

\* C2: no redemption operation succeeds on a code whose expires_at was in the past at
\* the time of the request.
C2_ExpiredNeverRedeemed == Redeemed => \A row \in resp.row : ~Expired(row, resp.at)

\* The redeemability the specification states: active, not expired, uses left or unlimited
Redeemable(row, t) ==
    /\ row.is_active
    /\ ~Expired(row, t)
    /\ (row.max_uses <= 0 \/ row.use_count < row.max_uses)

\* The request was refused for a reason that lies with the redeemer, not with the code
IneligibleRedeemer ==
    \/ resp.detail \in {"User not found", "User already has teacher role",
                        "User with this email already exists",
                        "User with this email already exists and has a teacher assignment",
                        "TOKEN_VERIFICATION_FAILED", "INVALID_TOKEN", "INTERNAL_ERROR",
                        "USER_INACTIVE"}
    \/ (resp.op = "complete_teacher_signup" /\ resp.status = 400)

\* C3: a redemption attempt on an existing code by an eligible redeemer succeeds if and
\* only if the code is active, not expired, and has uses left or max_uses <= 0.
C3_RedeemableIff ==
    (resp.op \in RedemptionOps /\ resp.row # {} /\ ~IneligibleRedeemer) =>
        \A row \in resp.row : (resp.status = 200) <=> Redeemable(row, resp.at)

\* C4: a get_current_user call that follows a successful one with the same token, the
\* token still verifying, succeeds with the same user id and adds no row and no role.
C4_Idempotent ==
    [][(/\ resp.op = "get_current_user" /\ resp.status = 200
        /\ resp'.op = "get_current_user" /\ resp'.token = resp.token
        /\ resp'.detail # "TOKEN_VERIFICATION_FAILED")
       => (/\ resp'.status = 200
           /\ resp'.identity.id = resp.identity.id
           /\ DOMAIN users' = DOMAIN users
           /\ users'[resp.identity.id].roles = users[resp.identity.id].roles)]_vars

\* C5: a user whose is_verified is true keeps it true through every get_current_user
\* call, whatever email_verified value the claims of the token carry.
C5_VerifiedMonotonic ==
    [][\A u \in DOMAIN users :
          users[u].is_verified => (u \in DOMAIN users' /\ users'[u].is_verified)]_vars

\* A verified user has been resolved from claims that do not say verified
C5_Witness ==
    /\ resp.op = "get_current_user" /\ resp.status = 200 /\ ~resp.created
    /\ TRUE \notin resp.token.payload.email_verified
    /\ resp.identity.verified
    /\ users[resp.identity.id].is_verified

\* C6: has_permission is true iff the permission is in the identity's permission set or
\* the set holds admin:all; the predicate on the User row and user_has_permission on
\* the dict agree.
C6_PermissionClosure ==
    resp.op = "has_permission" =>
        /\ resp.on_row <=> (resp.permission \in resp.permissions \/ AdminAll \in resp.permissions)
        /\ resp.on_dict <=> resp.on_row

\* A permission granted by the catch-all alone
C6_Witness ==
    /\ resp.op = "has_permission"
    /\ AdminAll \in resp.permissions /\ resp.permission \notin resp.permissions
    /\ resp.on_row /\ resp.on_dict

GatedOps == {"create_teacher_assignment", "get_or_create_my_teacher_code", "assign_teacher"}

\* The identity of the request holds what its gate requires
HoldsRequired ==
    IF resp.op = "create_teacher_assignment"
    THEN user_has_permission(resp.identity, resp.required)
    ELSE \E i \in 1..Len(resp.required) : Contains(resp.roles, resp.required[i])

\* C7: when the identity is absent or lacks the required permission or role, the
\* wrapped handler is not invoked.
C7_GateShortCircuit ==
    (resp.op \in GatedOps /\ (resp.identity = NoIdentity \/ ~HoldsRequired)) => ~resp.invoked

\* C8: require_permission answers 401 when there is no identity, 403 naming the
\* permission when the identity lacks it, and otherwise invokes the handler.
C8_RequirePermissionOutcomes ==
    resp.op = "create_teacher_assignment" =>
        IF resp.identity = NoIdentity
          THEN resp.detail # "INTERNAL_ERROR" => (resp.status = 401 /\ ~resp.invoked)
        ELSE IF ~HoldsRequired
          THEN /\ resp.status = 403 /\ ~resp.invoked
               /\ resp.detail = "Permission '" \o resp.required \o "' required"
        ELSE resp.invoked

\* C9: require_role admits the request iff the identity holds at least one of the
\* given roles, and answers 403 otherwise.
C9_RequireRoleOr ==
    (resp.op \in {"get_or_create_my_teacher_code", "assign_teacher"}
        /\ resp.identity # NoIdentity) =>
        /\ resp.invoked <=> HoldsRequired
        /\ ~HoldsRequired => resp.status = 403

\* The payloads the strategies of get_current_user accept for the token of the last
\* request; verify_clerk_jwt is tried only on a token with two dots
AcceptedPayloads ==
    {v.payload : v \in {w \in {IF resp.token.parts = 3
                                 THEN verify_clerk_jwt(resp.token, resp.jwks, resp.at)
                                 ELSE Reject(401, "Not a JWT token"),
                                 verify_token(resp.token, resp.at),
                                 verify_clerk_session(resp.token)} : w.ok}}

\* C10 as stated: the combined verifier either yields a claim map with a subject id
\* or, every strategy having failed, answers 401 TOKEN_VERIFICATION_FAILED with no
\* identity and no user created.
C10_VerifierDichotomy ==
    resp.op = "get_current_user" =>
        IF AcceptedPayloads = {}
        THEN /\ resp.status = 401 /\ resp.detail = "TOKEN_VERIFICATION_FAILED"
             /\ resp.identity = NoIdentity /\ ~resp.created
        ELSE /\ \A p \in AcceptedPayloads : Truthy(p.sub)
             /\ resp.detail \notin {"TOKEN_VERIFICATION_FAILED", "INVALID_TOKEN"}

\* C10 amended: a token no strategy accepts is answered 401 TOKEN_VERIFICATION_FAILED
\* with no identity and no user created; a token a strategy accepts is never answered
\* so, and is answered 401 INVALID_TOKEN, again with no identity and no user created,
\* exactly when the accepted payload carries no subject id.
C10_VerifierFallback ==
    resp.op = "get_current_user" =>
        IF AcceptedPayloads = {}
        THEN /\ resp.status = 401 /\ resp.detail = "TOKEN_VERIFICATION_FAILED"
             /\ resp.identity = NoIdentity /\ ~resp.created
        ELSE IF \E p \in AcceptedPayloads : ~Truthy(p.sub)
        THEN /\ resp.status = 401 /\ resp.detail = "INVALID_TOKEN"
             /\ resp.identity = NoIdentity /\ ~resp.created
        ELSE /\ resp.detail \notin {"TOKEN_VERIFICATION_FAILED", "INVALID_TOKEN"}
             /\ resp.status = 200 =>
                    \E p \in AcceptedPayloads :
                        resp.identity.id = p.sub \/ resp.identity.clerk_user_id = p.sub
                            \/ resp.identity.email = p.email

\* A token in JWT form that every strategy refused
C10_Witness ==
    /\ resp.op = "get_current_user" /\ resp.token.form = "jwt" /\ AcceptedPayloads = {}
    /\ resp.status = 401 /\ resp.detail = "TOKEN_VERIFICATION_FAILED"

\* The last request made verify_clerk_jwt fetch the key set: a token in JWT form whose
\* header names a key id
FetchedJwks == resp.op = "get_current_user" /\ resp.token.form = "jwt" /\ resp.token.kid # None

\* C11: when the JWKS fetch fails during the verification of a three-part token, the
\* request is answered with a 5xx JWKS_FETCH_FAILED and no later strategy resolves an
\* identity.
C11_JwksUnavailable ==
    (FetchedJwks /\ resp.jwks = "down") =>
        /\ resp.status >= 500 /\ resp.detail = "JWKS_FETCH_FAILED"
        /\ resp.identity = NoIdentity

\* C12: a JWT whose header kid is not in the key set is answered 401 INVALID_KEY_ID,
\* with no identity resolved and no user created.
C12_UnknownKeyId ==
    (FetchedJwks /\ resp.jwks = "up" /\ resp.token.kid \notin JwksKids) =>
        /\ resp.status = 401 /\ resp.detail = "INVALID_KEY_ID"
        /\ resp.identity = NoIdentity /\ ~resp.created

\* The token names the user as its subject, by primary key or by Clerk id
BearsTokenOf(token, u) ==
    /\ token.form = "jwt" /\ Truthy(token.payload.sub)
    /\ token.payload.sub \in {u, users[u].clerk_user_id}

\* C13: once a user is deactivated, every later request bearing that user's otherwise
\* valid token is answered 401 USER_INACTIVE and resolves no identity.
C13_InactiveRejected ==
    [][\A u \in DOMAIN users :
          (/\ ~users[u].is_active
           /\ resp'.op = "get_current_user"
           /\ BearsTokenOf(resp'.token, u)
           /\ verified_claims(resp'.token, resp'.jwks, now).ok)
          => (/\ resp'.status = 401 /\ resp'.detail = "USER_INACTIVE"
              /\ resp'.identity = NoIdentity)]_vars

\* The answers get_current_user gives a request it does not authenticate
AuthFailures == {"TOKEN_VERIFICATION_FAILED", "INVALID_TOKEN", "USER_INACTIVE", "INTERNAL_ERROR"}

\* C14: a failed redemption attempt by an authenticated caller on a code that does not
\* exist or is not redeemable adds no teacher link and no redemption record, leaves every
\* use_count as it was, and is answered with a 4xx reason, never a 500.
C14_FailedRedemptionFrame ==
    [][(/\ resp'.op \in RedemptionOps /\ resp'.code # None /\ resp'.status # 200
        /\ resp'.detail \notin AuthFailures
        /\ \A row \in resp'.row : ~Redeemable(row, resp'.at))
       => (/\ resp'.status \in 400..499
           /\ code_uses' = code_uses
           /\ assignments' = assignments
           /\ \A c \in DOMAIN codes : codes'[c].use_count = codes[c].use_count)]_vars

\* C15: a successful student redemption (use_teacher_code, register_user with a teacher
\* code) adds exactly one to the use_count of the code and leaves an active link from
\* the teacher of the code to the redeeming user.
C15_RedemptionIncrements ==
    [][(/\ resp' # resp
        /\ resp'.op \in {"use_teacher_code", "register_user"}
        /\ resp'.status = 200 /\ resp'.code \in DOMAIN codes)
       => (/\ codes'[resp'.code].use_count = codes[resp'.code].use_count + 1
           /\ \E i \in 1..Len(assignments') :
                 /\ assignments'[i].teacher_id = codes[resp'.code].teacher_id
                 /\ assignments'[i].student_id = resp'.user
                 /\ assignments'[i].active)]_vars

\* The caller of the last request owns the code of the request, or is an admin
ByOwnerOrAdmin(r) ==
    /\ r.user \in DOMAIN users
    /\ r.code \in DOMAIN codes
    /\ (codes[r.code].teacher_id = r.user \/ has_role(users, r.user, "admin"))

\* C16: a revocation by the owner or an admin leaves the code unredeemable (its row
\* gone or inactive) and every teacher-student link as it was, and no redemption
\* succeeds on a code that is inactive.
C16_RevokeIsFinal ==
    [][/\ (resp'.op = "delete_teacher_code" /\ resp' # resp /\ ByOwnerOrAdmin(resp'))
          => (/\ resp'.code \notin DOMAIN codes' \/ ~codes'[resp'.code].is_active
              /\ assignments' = assignments)
       /\ (resp'.op \in RedemptionOps /\ resp' # resp /\ resp'.status = 200)
          => \A row \in resp'.row : row.is_active]_vars

\* No row of the three tables occurs twice
NoDuplicateRows(t) ==
    /\ \A n \in BagToSet(t.permissions) : CopiesIn(n, t.permissions) = 1
    /\ \A n \in BagToSet(t.roles) : CopiesIn(n, t.roles) = 1
    /\ \A l \in BagToSet(t.links) : CopiesIn(l, t.links) = 1

\* C17: after any number of runs of initialize_rbac the tables are what one run leaves:
\* a further run changes nothing, no row is duplicated, every defined permission and
\* default role has its row, and the admin role holds every defined permission.
C17_InitializeRbacIdempotent ==
    resp.op = "initialize_rbac" =>
        /\ InitializeRbac(rbac) = rbac
        /\ NoDuplicateRows(rbac)
        /\ PERMISSIONS \subseteq BagToSet(rbac.permissions)
        /\ RoleNames \subseteq BagToSet(rbac.roles)
        /\ PERMISSIONS \subseteq role_permissions["admin"]

\* initialize_rbac has run on tables an earlier run had filled
C17_Witness ==
    /\ resp.op = "initialize_rbac"
    /\ resp.before = rbac
    /\ PERMISSIONS \subseteq BagToSet(rbac.permissions)
    /\ BagIn(<<"admin", "admin:system:manage">>, rbac.links)

RemovalOps == {"delete_account", "delete_user_account", "handle_user_deleted", "clerk_webhook"}

\* C18: no request removes a row of users, and an account removal that succeeds
\* leaves the row of the removed user in the table with is_active = false.
C18_NeverHardDeleted ==
    [][/\ DOMAIN users \subseteq DOMAIN users'
       /\ (resp' # resp /\ resp'.op \in RemovalOps /\ resp'.status = 200 /\ resp'.user # None)
          => (resp'.user \in DOMAIN users' /\ ~users'[resp'.user].is_active)]_vars

\* The email e of a soft-deleted row u is free: u is inactive, carries the rewritten
\* email, and no row carries e
FreedEmail(us, u, e) ==
    /\ ~us[u].is_active
    /\ us[u].email = MangledEmail(u, e)
    /\ UserByEmail(us, e) = None

\* C19: a soft delete that succeeds leaves no row with the removed user's email, and
\* while that email is free no request writes it into a row that already exists: only
\* a newly created account can take it.
C19_EmailStaysFree ==
    [][/\ (resp' # resp /\ resp'.op \in {"delete_account", "delete_user_account"}
              /\ resp'.status = 200 /\ resp'.user \in DOMAIN users)
          => UserByEmail(users', users[resp'.user].email) = None
       /\ \A u \in DOMAIN users : \A w \in DOMAIN users \cap DOMAIN users' :
             FreedEmail(users, u, users'[w].email) => FALSE]_vars

\* C20: a code that is exhausted (use_count >= max_uses > 0), expired or deactivated
\* stays in such a state whatever is requested next: its use_count does not decrease,
\* its is_active does not return to true and its expires_at is not changed.
C20_TerminalStates ==
    [][\A c \in DOMAIN codes \cap DOMAIN codes' :
          ~Redeemable(codes[c], now)
          => (/\ ~Redeemable(codes'[c], now')
              /\ codes'[c].use_count >= codes[c].use_count
              /\ codes'[c].is_active => codes[c].is_active
              /\ codes'[c].expires_at = codes[c].expires_at)]_vars

\* The first of the four checks a code fails at time t, in the order the specification
\* gives them
FirstFailure(cs, code, t) ==
    IF code \notin DOMAIN cs THEN "missing"
    ELSE IF Expired(cs[code], t) THEN "expired"
    ELSE IF ExceededMaxUses(cs[code]) THEN "exhausted"
    ELSE IF ~cs[code].is_active THEN "inactive"
    ELSE "none"

\* The messages with which the endpoints report each failure
ReasonsOf(failure) ==
    CASE failure = "missing" -> {"Invalid teacher code", "Invalid or expired code"}
      [] failure = "expired" -> {"Teacher code has expired", "Code has expired"}
      [] failure = "exhausted" -> {"Teacher code has exceeded maximum uses",
                                   "Teacher code has reached maximum uses",
                                   "Code has reached maximum uses"}
      \* register_user and use_teacher_code select the row with is_active = true and
      \* answer for an inactive code as for a missing one
      [] failure = "inactive" -> {"Teacher code is not active", "Invalid teacher code",
                                  "Invalid or expired code"}

\* Answers given before the code is looked at
BeforeCodeChecks ==
    AuthFailures \cup {"User not found", "User with this email already exists",
                       "User with this email already exists and has a teacher assignment"}

\* C21: every redemption endpoint checks a code in the order exists, not expired, under
\* max-uses, is_active, and reports the reason of the first check that fails.
C21_FirstFailingCheck ==
    [][(/\ resp' # resp
        /\ resp'.op \in RedemptionOps \cup {"validate_code_exists"}
        /\ resp'.code # None
        /\ resp'.detail \notin BeforeCodeChecks
        /\ FirstFailure(codes, resp'.code, now) # "none")
       => resp'.detail \in ReasonsOf(FirstFailure(codes, resp'.code, now))]_vars

\* C22: at most one active row of teacher_assignments per (teacher, student) pair.
C22_OneActiveEdge ==
    \A i, j \in 1..Len(assignments) :
        (/\ i # j
         /\ assignments[i].active /\ assignments[j].active
         /\ assignments[i].teacher_id = assignments[j].teacher_id
         /\ assignments[i].student_id = assignments[j].student_id)
        => FALSE

\* C23: get_jwks fetches exactly when no key set is cached or the cached one has reached
\* its expiry; an unexpired cached key set is returned as it is and the cache is left
\* alone; a fetch that succeeds replaces the cache and sets the expiry to one cache
\* lifetime from now; a fetch that fails leaves the cache as it was.
C23_LazyRefresh ==
    [][(now' = now /\ resp'.op = "get_jwks")
       => LET cached == /\ jwks_cache.jwks \notin {None, EmptyDocument}
                        /\ \E e \in jwks_cache.expiry : now < e
          IN /\ resp'.fetched <=> ~cached
             /\ cached => (/\ resp'.status = 200
                           /\ resp'.returned = jwks_cache.jwks
                           /\ jwks_cache' = jwks_cache)
             /\ (resp'.fetched /\ resp'.status = 200)
                => jwks_cache' = [jwks |-> resp'.returned, expiry |-> {now + CacheTtl}]
             /\ (resp'.fetched /\ resp'.status # 200) => jwks_cache' = jwks_cache]_vars

\* A key set fetched at an earlier time is served from the cache
C23_Witness ==
    /\ resp.op = "get_jwks" /\ ~resp.fetched /\ resp.at > CacheTtl
    /\ \E e \in jwks_cache.expiry : e < resp.at + CacheTtl

\* C24: get_current_user changes the name of an existing user only when the stored name
\* is a generic placeholder and the claimed name is not generic, and then the new name
\* is the claimed one; a specific stored name is never overwritten.
C24_NameReconciliation ==
    [][(resp'.op = "get_current_user" /\ now' = now)
       => \A u \in DOMAIN users \cap DOMAIN users' :
             users'[u].name # users[u].name
             => (/\ users[u].name \in GenericNames
                 /\ users'[u].name \notin GenericNames
                 /\ users'[u].name
                      = verified_claims(resp'.token, resp'.jwks, now).claims.name)]_vars

\* The placeholder of user 3 has been replaced by a claimed name, and a request that
\* claims another name for Ann has been served with her stored name
C24_Witness ==
    /\ users[Uid(3)].name \in {"Nina", "Nora"}
    /\ resp.op = "get_current_user" /\ resp.status = 200
    /\ resp.token.payload.sub = "user_a" /\ resp.token.payload.name = "Nina"
    /\ resp.identity.name = "Ann" /\ users[Uid(2)].name = "Ann"

\* The lookup the specification prescribes: by primary key when the subject parses as a
\* UUID, else by clerk_user_id = subject, else by the claimed email
PrescribedLookup(us, user_id, email) ==
    IF IsUuid(user_id) /\ user_id \in DOMAIN us THEN user_id
    ELSE IF UserByClerkId(us, user_id) # None THEN UserByClerkId(us, user_id)
    ELSE IF Truthy(email) THEN UserByEmail(us, email)
    ELSE None

\* C25: get_current_user finds the user the prescribed lookup finds, and creates a user
\* only when that lookup finds none; a user whose clerk_user_id is the subject is found
\* whatever the format of the subject.
C25_LookupOrder ==
    [][(/\ resp'.op = "get_current_user" /\ now' = now
        /\ verified_claims(resp'.token, resp'.jwks, now).ok
        /\ Truthy(verified_claims(resp'.token, resp'.jwks, now).claims.user_id))
       => \E c \in {verified_claims(resp'.token, resp'.jwks, now).claims} :
             /\ find_user(users, c.user_id, c.email) = PrescribedLookup(users, c.user_id, c.email)
             /\ resp'.created => PrescribedLookup(users, c.user_id, c.email) = None]_vars

\* The student of the exchange just answered has redeemed a teacher code
ExchangeOfRedeemer(r) ==
    /\ r.op = "clerk_exchange" /\ r.status = 200
    /\ \E use \in code_uses : use.student_id = r.user

OnboardingOps == {"assign_teacher_code", "validate_teacher_code", "complete_teacher_signup"}

\* C27: after a successful teacher-onboarding redemption the user holds the teacher role
\* and no other role: every role held before, the student role included, is gone.
C27_ExactlyTeacher ==
    [][(resp'.op \in OnboardingOps /\ resp'.status = 200 /\ now' = now)
       => /\ SeqToSet(users'[resp'.user].roles) = {"teacher"}
          /\ Len(users'[resp'.user].roles) = 1]_vars

\* A user seeded as a student has been onboarded and holds the teacher role only
C27_Witness ==
    /\ resp.op \in OnboardingOps /\ resp.status = 200
    /\ resp.user \in DOMAIN SeedUsers /\ Contains(SeedUsers[resp.user].roles, "student")
    /\ users[resp.user].roles = <<"teacher">>

RefreshOps == {"refresh_token", "refresh_access_token", "main_refresh_token"}

\* C28: a refresh token that has just been used successfully at /api/auth/refresh is
\* rejected with 401 when it is presented again, and no new tokens are issued.
C28_Rotation ==
    [][(/\ resp.op \in RefreshOps /\ resp.status = 200
        /\ resp'.op \in RefreshOps /\ resp'.presented = resp.presented
        /\ now' = now)
       => resp'.status = 401 /\ resp'.refresh_token = {}]_vars

\* The request just answered asked complete_lesson to record a pass (quiz_score >= 60, or
\* none) of a module that has a next module in its chapter
PassedWithNext(r, next) ==
    /\ r.op = "complete_lesson" /\ r.module \in DOMAIN Modules
    /\ r.quiz_score = {} \/ \E q \in r.quiz_score : q >= 60
    /\ next \in DOMAIN Modules
    /\ current_module_index(next) \notin {{}, {0}}
    /\ previous_module(next) = r.module

C30_MapsConsistent ==
    /\ \A u \in DOMAIN manager.active_connections :
          /\ manager.active_connections[u] # {}
          /\ \A w \in manager.active_connections[u] :
                w \in DOMAIN manager.websocket_to_user /\ manager.websocket_to_user[w] = u
    /\ \A w \in DOMAIN manager.websocket_to_user :
          /\ manager.websocket_to_user[w] \in DOMAIN manager.active_connections
          /\ w \in manager.active_connections[manager.websocket_to_user[w]]

\* Dead connections have been cleaned up: a user has lost the last connection, another
\* user is still connected
C30_Witness ==
    /\ resp.op = "send_personal_message"
    /\ resp.user \notin DOMAIN manager.active_connections
    /\ \E w \in manager.accepted : w \notin DOMAIN manager.websocket_to_user
    /\ DOMAIN manager.active_connections # {}

====
